---- MODULE Spec2Model ----
(***************************************************************************)
(* Day-trader paper-trading ledger: the fills of the execution engine     *)
(* (executeBuy / executeSell), issued by manual orders (POST /orders) and  *)
(* by live ticks (evaluateAlgorithm), against one paper account.           *)
(*                                                                         *)
(* Every `await` on a database statement is one atomic step; the steps of  *)
(* different tasks interleave freely, as the promises of one Node process  *)
(* do.  The code opens no database transaction and takes no lock.          *)
(*                                                                         *)
(* Money is counted in whole units; a position's average_price is the     *)
(* exact quotient the code computes, kept as a reduced fraction.           *)
(***************************************************************************)
EXTENDS Integers, Sequences, FiniteSets, TLC

VARIABLES
    balance,        \* paper_accounts.balance of the account
    positions,      \* positions table: symbol -> row or Null
    orders,         \* orders table, in insertion order (id = index)
    transactions,   \* transactions table, in insertion order
    task,           \* per task: program position and locals of the handler
    quote,          \* the price the market data service returns for the symbol
    rules,          \* context.rules of the running algorithm
    ctxBalance,     \* context.account.balance, read when the algorithm started
    opening,        \* the ledger in the initial state (for comparison only)
    pre,            \* history: the ledger when the fill in flight was called,
                    \* kept while no other task runs
    runs,           \* number of requests / ticks started so far
    faults,         \* number of database errors injected so far
    runningAlgorithms,  \* ExecutionEngine.runningAlgorithms: id -> context
    intervals,      \* ExecutionEngine.intervals: id -> timer handle
    timers,         \* the timers of setInterval not yet cleared: handle -> id
    calls,          \* the calls of startAlgorithm, in the order they were made
    evals,          \* the calls of evaluateAlgorithm in flight
    stopped,        \* history: stopAlgorithm(id) returned and no start of id
                    \* was called since
    logged,         \* history: per id, the kinds of evaluation ("start",
                    \* "timer") that ended in the catch block
    bt,             \* simulateTrades: locals of the backtest loop
    probe,          \* a rule and a market context handed to the evaluators
    acct,           \* paper_accounts: initial_balance and total_value
    req,            \* the account request in flight (a view or a reset)
    NODE_ENV,       \* process.env.NODE_ENV of the server process
    algorithm_rules,    \* algorithm_rules table: rule id -> row or Null
    reply,          \* history: the last request on a rule and its response
    algorithms,     \* trading_algorithms table: algorithm id -> row or Null
    cache,          \* MarketDataService.cache: key -> entry or Null
    clock,          \* Date.now(), and how often the model moved it
    served          \* history: the last read through the cache

ledger == <<balance, positions, orders, transactions>>
trade == <<balance, positions, orders, transactions, task, quote, rules,
           ctxBalance, opening, pre, runs, faults>>
engine == <<runningAlgorithms, intervals, timers, calls, evals, stopped, logged>>
rulebook == <<algorithm_rules, reply, algorithms>>
cachebook == <<cache, clock, served>>
books == <<rulebook, cachebook>>
desk == <<acct, req, NODE_ENV, books>>
outside == <<engine, bt, probe, desk>>
vars == <<trade, engine, bt, probe, desk>>

-----------------------------------------------------------------------------
(* Bounds of the model *)

MaxRuns == 2        \* requests and ticks started in one behaviour
MaxFaults == 1      \* database statements that fail in one behaviour
MaxOrders == 1      \* orders whose later life SpecOrder follows
MaxStarts == 2      \* calls of startAlgorithm in one behaviour
MaxEvals == 2       \* calls of evaluateAlgorithm in flight at one time
MaxBars == 2        \* bars of historical data in a backtest
MaxReads == 3       \* reads through the market data cache in one behaviour
MaxWaits == 3       \* times the clock moves in one behaviour
MaxHistory == 52    \* bars of historical data handed to calculateIndicators

Tasks == {"t1", "t2"}
Symbols == {"AAPL"}
Prices == {2, 3}
Qtys == {1, 2}
StartBalances == {5}
AlgIds == {1}
Users == {"u1", "u2"}
\* the user whose requests reach startAlgorithm (the rows read belong to
\* either user)
Callers == {"u1"}


-----------------------------------------------------------------------------
(* Exact fractions for average_price *)

Abs(x) == IF x < 0 THEN -x ELSE x

RECURSIVE GCD(_, _)
GCD(a, b) == IF b = 0 THEN a ELSE GCD(b, a % b)

\* n / d for d # 0, in lowest terms with a positive denominator
Frac(n, d) ==
    LET g == GCD(Abs(n), Abs(d))
        s == IF d < 0 THEN -1 ELSE 1
    IN  [num |-> (s * n) \div g, den |-> Abs(d) \div g]

Min(a, b) == IF a < b THEN a ELSE b


-----------------------------------------------------------------------------
(* JavaScript values the evaluator and the executor compute with: a number  *)
(* (an exact fraction), NaN, or undefined/null.                             *)

JNum(n, d) == [t |-> "number", num |-> Frac(n, d).num, den |-> Frac(n, d).den]
JNaN == [t |-> "NaN", num |-> 0, den |-> 1]
JUndef == [t |-> "undefined", num |-> 0, den |-> 1]

\* a < b: false as soon as one side is NaN or undefined
Less(a, b) ==
    /\ a.t = "number" /\ b.t = "number"
    /\ a.num * b.den < b.num * a.den

\* a === b on numbers: NaN equals nothing
StrictEq(a, b) == a.t = "number" /\ b.t = "number" /\ a = b

\* Math.floor(a / b) for integers a and b > 0
FloorDiv(a, b) == a \div b

-----------------------------------------------------------------------------
(* The arithmetic of JavaScript numbers, IEEE 754 doubles, where the code    *)
(* multiplies and divides by numbers that need not be exact.  A natural      *)
(* number of any size is the sequence of its bits, lowest first; a double    *)
(* that is not negative is [m, e], which stands for m * 2^e with m of at     *)
(* most 53 significant bits.                                                 *)

RECURSIVE NatBits(_)
NatBits(n) == IF n = 0 THEN <<>> ELSE <<n % 2>> \o NatBits(n \div 2)

\* the k lowest bits of n
RECURSIVE LowBits(_, _)
LowBits(n, k) == IF k = 0 THEN <<>> ELSE <<n % 2>> \o LowBits(n \div 2, k - 1)

RECURSIVE BitsNat(_)
BitsNat(b) == IF b = <<>> THEN 0 ELSE Head(b) + 2 * BitsNat(Tail(b))

\* without the zeros above the highest 1
Trim(b) ==
    IF \A i \in DOMAIN b : b[i] = 0 THEN <<>>
    ELSE SubSeq(b, 1, CHOOSE i \in DOMAIN b :
                        b[i] = 1 /\ \A j \in (i + 1)..Len(b) : b[j] = 0)

Zeros(k) == [i \in 1..k |-> 0]

\* b * n + carry, ten bits of b at a time
RECURSIVE MulCarry(_, _, _)
MulCarry(b, n, carry) ==
    IF b = <<>> THEN NatBits(carry)
    ELSE LET k == Min(10, Len(b))
             v == BitsNat(SubSeq(b, 1, k)) * n + carry
         IN  LowBits(v, k) \o MulCarry(SubSeq(b, k + 1, Len(b)), n, v \div 2^k)

\* long division of b by d from the highest bits down, ten bits at a time, r
\* being the remainder so far: the quotient, and the remainder
RECURSIVE DivBits(_, _, _)
DivBits(b, d, r) ==
    IF b = <<>> THEN <<>>
    ELSE LET k == Min(10, Len(b))
             v == r * 2^k + BitsNat(SubSeq(b, Len(b) - k + 1, Len(b)))
         IN  DivBits(SubSeq(b, 1, Len(b) - k), d, v % d) \o LowBits(v \div d, k)

RECURSIVE ModBits(_, _, _)
ModBits(b, d, r) ==
    IF b = <<>> THEN r
    ELSE LET k == Min(10, Len(b))
             v == r * 2^k + BitsNat(SubSeq(b, Len(b) - k + 1, Len(b)))
         IN  ModBits(SubSeq(b, 1, Len(b) - k), d, v % d)

\* b + 1
Increment(b) ==
    IF \A i \in DOMAIN b : b[i] = 1 THEN Zeros(Len(b)) \o <<1>>
    ELSE LET z == CHOOSE i \in DOMAIN b :
                     b[i] = 0 /\ \A j \in 1..(i - 1) : b[j] = 1
         IN  Zeros(z - 1) \o <<1>> \o SubSeq(b, z + 1, Len(b))

\* the double nearest to (b + f) * 2^e, where 0 <= f < 1 and f # 0 iff
\* sticky: 53 significant bits, round to nearest, ties to even
RoundDouble(b, sticky, e) ==
    LET t == Trim(b)
        drop == Len(t) - 53
    IN  IF drop <= 0 THEN [m |-> t, e |-> e]
        ELSE LET kept == SubSeq(t, drop + 1, Len(t))
                 half == t[drop] = 1
                 below == sticky \/ \E i \in 1..(drop - 1) : t[i] = 1
                 up == half /\ (below \/ kept[1] = 1)
             IN  [m |-> IF up THEN Increment(kept) ELSE kept, e |-> e + drop]

\* an integer below 2^53 is a double
DoubleOfNat(n) == [m |-> NatBits(n), e |-> 0]

\* x / d in doubles, d a positive integer: 70 more bits of the quotient than
\* x has, which is more than the 53 that are kept
DoubleDiv(x, d) ==
    LET shifted == Zeros(70) \o x.m
    IN  IF x.m = <<>> THEN x
        ELSE RoundDouble(DivBits(shifted, d, 0), ModBits(shifted, d, 0) # 0,
                         x.e - 70)

\* x * n in doubles, n a natural number
DoubleMul(x, n) ==
    IF n = 0 \/ x.m = <<>> THEN [m |-> <<>>, e |-> 0]
    ELSE RoundDouble(MulCarry(x.m, n, 0), FALSE, x.e)

\* Math.floor(x)
DoubleFloor(x) ==
    IF x.e >= 0 THEN BitsNat(Zeros(x.e) \o x.m)
    ELSE IF -x.e >= Len(x.m) THEN 0
    ELSE BitsNat(SubSeq(x.m, 1 - x.e, Len(x.m)))

\* Math.floor(-x)
DoubleFloorNeg(x) ==
    IF x.e >= 0 \/ \A i \in 1..Min(-x.e, Len(x.m)) : x.m[i] = 0
      THEN -DoubleFloor(x)
    ELSE -DoubleFloor(x) - 1

\* Math.floor(a * (n / 100)) for integers a and n >= 0
FloorPercentOf(a, n) ==
    IF a >= 0 THEN DoubleFloor(DoubleMul(DoubleDiv(DoubleOfNat(n), 100), a))
    ELSE DoubleFloorNeg(DoubleMul(DoubleDiv(DoubleOfNat(n), 100), -a))

\* Math.floor((a * (n / 100)) / price) for integers a, n >= 0, price > 0
FloorPercentPer(a, n, price) ==
    IF a >= 0
      THEN DoubleFloor(DoubleDiv(DoubleMul(DoubleDiv(DoubleOfNat(n), 100), a),
                                 price))
    ELSE DoubleFloorNeg(DoubleDiv(DoubleMul(DoubleDiv(DoubleOfNat(n), 100), -a),
                                  price))

-----------------------------------------------------------------------------
(* Rule evaluator and action executor of the live engine *)

\* A string that is read as a number or as a name (an action value such as
\* "10", "50%", "max"; a condition value such as "100" or "price").  text is
\* "num" for a decimal literal, whose number is n and which ends in '%' when
\* percent; any other text is the string itself.
Lit(n) == [text |-> "num", n |-> n, percent |-> FALSE]
Pct(n) == [text |-> "num", n |-> n, percent |-> TRUE]
Word(w) == [text |-> w, n |-> 0, percent |-> FALSE]

Rule(idx, field, op, value, verb, actionValue) ==
    [order_index |-> idx, condition_field |-> field, condition_operator |-> op,
     condition_value |-> value, verb |-> verb, actionValue |-> actionValue]

\* parseFloat(string)
ParseFloat(v) == IF v.text = "num" THEN JNum(v.n, 1) ELSE JNaN

\* the field names of the model's universe that start with "position."
PositionFields ==
    {"position.quantity", "position.averagePrice", "position.bogus"}

\* marketContext.position[posField] of a position sub-record
PositionField(position, field) ==
    IF field = "position.quantity" THEN JNum(position.quantity, 1)
    ELSE IF field = "position.averagePrice"
      THEN JNum(position.average_price.num, position.average_price.den)
    ELSE JUndef

\* marketContext[name] for a name that is not a position field; of the quote's
\* numeric fields the model carries price
ContextField(ctx, name) ==
    IF name = "price" THEN JNum(ctx.price, 1) ELSE JUndef

\* the switch over condition_operator
Compare(op, fieldValue, compareValue) ==
    CASE op = ">"  -> Less(compareValue, fieldValue)
      [] op = "<"  -> Less(fieldValue, compareValue)
      [] op = ">=" -> Less(compareValue, fieldValue) \/ StrictEq(fieldValue, compareValue)
      [] op = "<=" -> Less(fieldValue, compareValue) \/ StrictEq(fieldValue, compareValue)
      [] op \in {"==", "="} -> StrictEq(fieldValue, compareValue)
      [] op = "!=" -> ~StrictEq(fieldValue, compareValue)
      [] OTHER -> FALSE

\* (variant with a slip: a missing position reads as a position of nothing,
\* all of whose fields are 0)
evaluateRuleEmptyPosition(rule, ctx, accountBalance) ==
    LET field == rule.condition_field
        fieldValue ==
            IF field \in PositionFields
              THEN (IF ctx.position = <<>> THEN JNum(0, 1)
                    ELSE PositionField(ctx.position[1], field))
            ELSE IF field = "balance" THEN JNum(accountBalance, 1)
            ELSE ContextField(ctx, field)
        parsed == ParseFloat(rule.condition_value)
    IN  /\ fieldValue.t # "undefined"
        /\ Compare(rule.condition_operator, fieldValue,
                   IF parsed.t # "NaN" THEN parsed ELSE JNum(0, 1))

\* evaluateRule(rule, marketContext, account); ctx.position is the list of
\* rows the tick read for the symbol (empty: position is null)
evaluateRule(rule, ctx, accountBalance) ==
    LET field == rule.condition_field
        fieldValue ==
            IF field \in PositionFields
              THEN (IF ctx.position = <<>> THEN JUndef
                    ELSE PositionField(ctx.position[1], field))
            ELSE IF field = "balance" THEN JNum(accountBalance, 1)
            ELSE ContextField(ctx, field)
        parsed == ParseFloat(rule.condition_value)
        looked == ContextField(ctx, rule.condition_value.text)
        compareValue ==
            IF parsed.t # "NaN" THEN parsed
            ELSE IF looked.t # "number" \/ looked.num = 0 THEN JNum(0, 1)
            ELSE looked
    IN  /\ fieldValue.t # "undefined"
        /\ Compare(rule.condition_operator, fieldValue, compareValue)

\* executeAction: the quantity it computes (NaN when the action value is no
\* number), or undefined when it returns before computing one
ActionQuantity(verb, actionValue, ctx, accountBalance) ==
    LET value == ParseFloat(actionValue)
    IN  IF verb = "buy" THEN
            IF actionValue.text = "max"
              THEN JNum(FloorDiv(accountBalance, ctx.price), 1)
            ELSE IF value.t = "NaN" THEN JNaN
            ELSE IF actionValue.percent
              THEN JNum(FloorPercentPer(accountBalance, value.num, ctx.price), 1)
            ELSE value
        ELSE IF verb = "sell" THEN
            IF ctx.position = <<>> \/ ctx.position[1].quantity = 0 THEN JUndef
            ELSE IF actionValue.text = "all"
              THEN JNum(ctx.position[1].quantity, 1)
            ELSE IF value.t = "NaN" THEN JNaN
            ELSE IF actionValue.percent
              THEN JNum(FloorPercentOf(ctx.position[1].quantity, value.num), 1)
            ELSE JNum(Min(value.num, ctx.position[1].quantity), 1)
        ELSE JUndef

\* `quantity > 0` of executeAction: false for NaN and after an early return
SubmitsFill(q) == q.t = "number" /\ q.num > 0

\* the rules left in the order in which they were stored
SortRulesStored(s) == s

\* rules.sort((a, b) => a.order_index - b.order_index): a stable sort
RECURSIVE InsertRule(_, _)
InsertRule(r, s) ==
    IF s = <<>> THEN <<r>>
    ELSE IF r.order_index < Head(s).order_index THEN <<r>> \o s
    ELSE <<Head(s)>> \o InsertRule(r, Tail(s))

RECURSIVE SortRules(_)
SortRules(s) ==
    IF s = <<>> THEN <<>>
    ELSE InsertRule(s[Len(s)], SortRules(SubSeq(s, 1, Len(s) - 1)))

-----------------------------------------------------------------------------
(* The ledger arithmetic of the fills *)

\* quantity * price (totalCost of executeBuy, totalProceeds of executeSell)
Total(quantity, price) == quantity * price

\* (variants of the guard with a slip, used to test the properties below)
InsufficientBalanceNever(accountBalance, totalCost) == FALSE
InsufficientBalanceOffByOne(accountBalance, totalCost) ==
    accountBalance + 1 < totalCost

\* executeBuy's guard `account.balance < totalCost`
InsufficientBalance(accountBalance, totalCost) == accountBalance < totalCost

\* newBalance of executeBuy and of executeSell
NewBalance(side, accountBalance, total) ==
    IF side = "buy" THEN accountBalance - total ELSE accountBalance + total

\* the quantity handed to Position.upsert: negative for a sell
SignedQuantity(side, quantity) == IF side = "buy" THEN quantity ELSE -quantity

\* Position.upsert: newQuantity and newAveragePrice of an existing row
NewQuantity(existing, quantity) == existing.quantity + quantity

\* (variant with a slip: the plain mean of the two prices)
NewAveragePriceUnweighted(existing, quantity, averagePrice) ==
    Frac(existing.average_price.num + averagePrice * existing.average_price.den,
         2 * existing.average_price.den)

NewAveragePrice(existing, quantity, averagePrice) ==
    Frac(existing.quantity * existing.average_price.num
           + quantity * averagePrice * existing.average_price.den,
         existing.average_price.den * NewQuantity(existing, quantity))

\* a row of positions as INSERT writes it: current_price and market_value
\* are NULL until Position.updateMarketValue sets them
PositionRow(quantity, avg) ==
    [quantity |-> quantity, average_price |-> avg, market |-> <<>>]

\* the route's check before a manual sell
InsufficientShares(rows, quantity) ==
    rows = <<>> \/ rows[1].quantity < quantity

\* the signed amount of the transaction a fill records
SignedAmount(side, total) == IF side = "buy" THEN -total ELSE total

-----------------------------------------------------------------------------
(* Tasks: a request handler or a tick, with the locals of the code it runs *)

IdleTask(result) ==
    [pc |-> "idle", kind |-> "none", side |-> "none", symbol |-> "none",
     quantity |-> 0, price |-> 0, reqAccount |-> 0, account |-> 0, order |-> 0,
     existing |-> <<>>, ctxPos |-> <<>>, ruleIdx |-> 0, synthetic |-> FALSE,
     result |-> result]

Snapshot ==
    [balance |-> balance, positions |-> positions, orders |-> orders,
     transactions |-> transactions]

FillPcs ==
    {"getAccount", "createOrder", "fillOrder", "updateBalance", "upsertSelect",
     "upsertWrite", "createTransaction"}

InFill(t) == task[t].pc \in FillPcs

\* the call of executeBuy / executeSell
EnterFill(tk, side, quantity, price) ==
    [tk EXCEPT !.pc = "getAccount", !.side = side, !.quantity = quantity,
               !.price = price, !.account = 0, !.order = 0, !.existing = <<>>,
               !.reqAccount = 0]

\* executeBuy / executeSell returns or throws: the route answers, the tick
\* goes on with its next rule (executeAction catches what the fill throws)
LeaveFill(tk, result) ==
    IF tk.kind = "tick"
      THEN [tk EXCEPT !.pc = "evalRule", !.ruleIdx = tk.ruleIdx + 1,
                      !.side = "none", !.quantity = 0, !.account = 0,
                      !.order = 0, !.existing = <<>>, !.result = result]
      ELSE IdleTask(result)

\* History of a step of task t that leaves it at tk: the ledger is recorded
\* when t calls a fill while every other task is idle, and dropped when the
\* fill ends.
OthersIdle(t) == \A u \in Tasks \ {t} : task[u].pc = "idle"

PreAfter(t, tk) ==
    IF tk.pc \notin FillPcs THEN <<>>
    ELSE IF ~InFill(t) THEN (IF OthersIdle(t) THEN <<Snapshot>> ELSE <<>>)
    ELSE pre

-----------------------------------------------------------------------------
(* Initial state *)

StartPositions ==
    { [s \in Symbols |-> <<>>],
      [s \in Symbols |-> <<PositionRow(2, Frac(2, 1))>>] }

Always == Lit(0)

\* buy two shares when the price is above 1, then sell all when more than one
\* share is held
EntryThenExit ==
    << Rule(0, "price", ">", Lit(1), "buy", Lit(2)),
       Rule(1, "position.quantity", ">", Lit(1), "sell", Word("all")) >>

RuleSets ==
    { EntryThenExit,
      \* two exit rules that fire in the same tick
      << Rule(0, "price", ">", Always, "sell", Word("all")),
         Rule(1, "price", ">", Always, "sell", Word("all")) >>,
      \* stored out of order: buy one share, then sell 150% of the position
      << Rule(1, "position.quantity", ">=", Lit(1), "sell", Pct(150)),
         Rule(0, "balance", ">=", Word("price"), "buy", Lit(1)) >>,
      \* spend the whole balance
      << Rule(0, "price", "<=", Lit(3), "buy", Word("max")) >> }

\* two rules created without order_index: both have the default, 0
SameIndex ==
    << Rule(0, "price", ">", Lit(1), "buy", Lit(1)),
       Rule(0, "price", ">", Lit(2), "buy", Word("max")) >>

\* buy two shares, then sell one of them (a partial sell)
PartialExit ==
    << Rule(0, "price", ">", Lit(1), "buy", Lit(2)),
       Rule(1, "position.quantity", ">", Lit(1), "sell", Lit(1)) >>

BacktestRuleSets == RuleSets \cup {SameIndex, PartialExit}

\* the account was created with the balance it has now plus what its
\* positions cost, and its total_value was not recomputed since
RECURSIVE CostOf(_, _)
CostOf(pos, syms) ==
    IF syms = {} THEN 0
    ELSE LET sym == CHOOSE x \in syms : TRUE
         IN  (IF pos[sym] = <<>> THEN 0
              ELSE (pos[sym][1].quantity * pos[sym][1].average_price.num)
                     \div pos[sym][1].average_price.den)
             + CostOf(pos, syms \ {sym})

OpeningValue(cash, pos) == cash + CostOf(pos, Symbols)

\* no account request in flight
NoRequest ==
    [pc |-> "idle", kind |-> "none", balance |-> 0, symbols |-> {},
     quotes |-> <<>>, positionsValue |-> 0, initial |-> 0, result |-> "none"]

\* no backtest running, nothing handed to the evaluators
BtIdle ==
    [pc |-> "idle", given |-> <<>>, initialCapital |-> 0, rules |-> <<>>,
     bars |-> <<>>, i |-> 0, ruleIdx |-> 0, balance |-> 0, position |-> <<>>,
     context |-> <<>>, trades |-> <<>>, equityCurve |-> <<>>,
     result |-> <<>>, first |-> <<>>]
NoProbe ==
    [pc |-> "none", rule |-> Rule(0, "price", ">", Lit(0), "buy", Lit(0)),
     context |-> [symbol |-> "AAPL", price |-> 1, position |-> <<>>],
     balance |-> 0, fires |-> FALSE, backtestFires |-> FALSE,
     quantity |-> JUndef, bars |-> 0, currentIndex |-> 0, indicators |-> {}]

\* trading_algorithms as first stored: algorithm 1 is u1's, algorithm 2 is
\* u2's, both toggled active
trading_algorithms ==
    [id \in {1, 2} |-> [user_id |-> IF id = 1 THEN "u1" ELSE "u2",
                        is_active |-> TRUE]]

\* the rule ids in use, and the ids a request may name (3: no such row)
RuleIds == {1, 2}
RequestIds == {1, 2, 3}

NoReply ==
    [kind |-> "none", user |-> "none", algorithmId |-> 0, ruleId |-> 0,
     status |-> 0]

\* the keys of the cache: the quote and the daily bars of a year of AAPL
CacheKeys == {"quote_AAPL", "hist_AAPL_1y_1d"}

NothingServed ==
    [n |-> 0, key |-> "none", hit |-> FALSE, data |-> <<>>, found |-> <<>>,
     at |-> 0]

\* NODE_ENV as the deployment sets it
Modes == {"development", "production"}

InitState ==
    /\ balance \in StartBalances
    /\ positions \in StartPositions
    /\ orders = <<>>
    /\ transactions = <<>>
    /\ task = [t \in Tasks |-> IdleTask("none")]
    /\ quote \in Prices
    /\ pre = <<>>
    /\ rules \in RuleSets
    /\ ctxBalance = balance
    /\ opening = [balance |-> balance, positions |-> positions]
    /\ runs = 0
    /\ faults = 0
    /\ runningAlgorithms = [id \in AlgIds |-> <<>>]
    /\ intervals = [id \in AlgIds |-> <<>>]
    /\ timers = {}
    /\ calls = <<>>
    /\ evals = <<>>
    /\ stopped = [id \in AlgIds |-> FALSE]
    /\ logged = [id \in AlgIds |-> {}]
    /\ bt = BtIdle
    /\ probe = NoProbe
    /\ acct = [initial_balance |-> OpeningValue(balance, positions),
               total_value |-> OpeningValue(balance, positions)]
    /\ req = NoRequest
    /\ algorithm_rules =
         [id \in RuleIds |-> <<[algorithm_id |-> id, order_index |-> 0]>>]
    /\ reply = NoReply
    /\ algorithms = [id \in DOMAIN trading_algorithms |->
                       <<trading_algorithms[id]>>]
    /\ cache = [key \in CacheKeys |-> <<>>]
    /\ clock = [now |-> 0, waits |-> 0]
    /\ served = NothingServed

\* no code of the ledger, the engine or the backtest reads NODE_ENV
Init == InitState /\ NODE_ENV = "production"

-----------------------------------------------------------------------------
(* POST /paper-trading/orders *)

\* the handler starts: PaperAccount.getOrCreate reads the account
OrderRequest(t) ==
    /\ task[t].pc = "idle"
    /\ \E side \in {"buy", "sell"}, sym \in Symbols, q \in Qtys :
         task' = [task EXCEPT ![t] =
                    [IdleTask("none") EXCEPT !.pc = "getQuote", !.kind = "manual",
                                             !.side = side, !.symbol = sym,
                                             !.quantity = q,
                                             !.reqAccount = balance]]
    /\ runs' = runs + 1
    /\ pre' = <<>>
    /\ UNCHANGED outside
    /\ UNCHANGED <<ledger, quote, rules, ctxBalance, opening, faults>>

\* the quote arrives; a buy is checked against the balance read above and
\* handed to executeBuy, a sell goes on to read the position
RouteQuote(t) ==
    /\ task[t].pc = "getQuote"
    /\ LET tk == task[t]
           price == quote
       IN
         task' = [task EXCEPT ![t] =
                    IF tk.side = "buy"
                      THEN IF tk.reqAccount < Total(tk.quantity, price)
                             THEN IdleTask("400")
                             ELSE EnterFill(tk, "buy", tk.quantity, price)
                      ELSE [tk EXCEPT !.pc = "routeGetPosition",
                                      !.price = price, !.reqAccount = 0]]
    /\ pre' = PreAfter(t, task'[t])
    /\ UNCHANGED outside
    /\ UNCHANGED <<ledger, quote, rules, ctxBalance, opening, runs, faults>>

\* Position.getBySymbol and the check of the sell branch
RouteGetPosition(t) ==
    /\ task[t].pc = "routeGetPosition"
    /\ LET tk == task[t] IN
       task' = [task EXCEPT ![t] =
                  IF InsufficientShares(positions[tk.symbol], tk.quantity)
                    THEN IdleTask("400")
                    ELSE EnterFill(tk, "sell", tk.quantity, tk.price)]
    /\ pre' = PreAfter(t, task'[t])
    /\ UNCHANGED outside
    /\ UNCHANGED <<ledger, quote, rules, ctxBalance, opening, runs, faults>>

-----------------------------------------------------------------------------
(* MarketDataService *)

\* the price getMockQuote makes up (100 + Math.random() * 400, and a change)
MockPrices == {1}

getMockQuote(symbol, mock) ==
    [symbol |-> symbol, price |-> mock, synthetic |-> TRUE]

\* getQuote(symbol): what the upstream answered or, when the fetch failed,
\* the mock quote (synthetic is for comparison only, the object has no such
\* field)
getQuote(symbol, fetched, mock) ==
    IF fetched THEN [symbol |-> symbol, price |-> quote, synthetic |-> FALSE]
    ELSE getMockQuote(symbol, mock)

\* getMultipleQuotes(symbols): one key per symbol
getMultipleQuotes(symbols, fetched, mock) ==
    [sym \in symbols |-> getQuote(sym, fetched[sym], mock[sym])]

-----------------------------------------------------------------------------
(* MarketDataService: the cache in front of the upstream *)

\* this.cacheDuration, and the duration getHistoricalData passes (ms)
cacheDuration == 60000
historicalDuration == 3600000

\* time that passes between two calls (ms)
Waits == {1, cacheDuration, historicalDuration}

\* (variant with a slip: an entry is returned whatever its age)
getCachedAnyAge(c, key, now) ==
    IF c[key] = <<>> THEN [data |-> <<>>, cache |-> c]
    ELSE [data |-> <<c[key][1].data>>, cache |-> c]

\* getCached(key): the data of the entry, or null; an entry older than its
\* duration is deleted
getCached(c, key, now) ==
    IF c[key] = <<>> THEN [data |-> <<>>, cache |-> c]
    ELSE IF now - c[key][1].timestamp > c[key][1].duration
      THEN [data |-> <<>>, cache |-> [c EXCEPT ![key] = <<>>]]
    ELSE [data |-> <<c[key][1].data>>, cache |-> c]

\* setCache(key, data, duration)
setCache(c, key, data, duration, now) ==
    [c EXCEPT ![key] = <<[data |-> data, timestamp |-> now,
                          duration |-> duration]>>]

\* a call that goes through the cache: the cached data if there is any;
\* else what the upstream answers, which is stored, or, the fetch having
\* failed, mock data, which is not
ThroughCache(key, duration, fetched, mock) ==
    LET cached == getCached(cache, key, clock.now)
        answer == getQuote("AAPL", fetched, mock)
        data == IF cached.data # <<>> THEN cached.data[1] ELSE answer
    IN  /\ cache' = IF cached.data # <<>> \/ ~fetched THEN cached.cache
                    ELSE setCache(cached.cache, key, answer, duration,
                                  clock.now)
        /\ served' = [n |-> served.n + 1, key |-> key,
                      hit |-> cached.data # <<>>, data |-> <<data>>,
                      found |-> cache[key], at |-> clock.now]

\* getQuote(symbol), cache included
QuoteRequest ==
    /\ served.n < MaxReads
    /\ \E fetched \in BOOLEAN, mock \in MockPrices :
         ThroughCache("quote_AAPL", cacheDuration, fetched, mock)
    /\ UNCHANGED <<trade, engine, bt, probe, acct, req, NODE_ENV, rulebook,
                   clock>>

\* getHistoricalData(symbol, range, interval), cache included (of the bars
\* the model keeps the last close and whether they are mock data)
HistoryRequest ==
    /\ served.n < MaxReads
    /\ \E fetched \in BOOLEAN, mock \in MockPrices :
         ThroughCache("hist_AAPL_1y_1d", historicalDuration, fetched, mock)
    /\ UNCHANGED <<trade, engine, bt, probe, acct, req, NODE_ENV, rulebook,
                   clock>>

\* time passes
Wait ==
    /\ clock.waits < MaxWaits
    /\ \E d \in Waits :
         clock' = [now |-> clock.now + d, waits |-> clock.waits + 1]
    /\ UNCHANGED <<trade, engine, bt, probe, acct, req, NODE_ENV, rulebook,
                   cache, served>>

-----------------------------------------------------------------------------
(* evaluateAlgorithm: one tick of the running algorithm *)

\* the timer fires: getMultipleQuotes(symbols), each fetch ending as one of
\* Outcomes, and the loop reaches a symbol that has a quote
TickFetch(t, Outcomes) ==
    /\ task[t].pc = "idle"
    /\ \E fetched \in [Symbols -> Outcomes], mock \in [Symbols -> MockPrices] :
         LET quotes == getMultipleQuotes(Symbols, fetched, mock)
         IN  \E sym \in DOMAIN quotes :
               task' = [task EXCEPT ![t] =
                          [IdleTask("none") EXCEPT
                             !.pc = "getPosition", !.kind = "tick",
                             !.symbol = sym, !.price = quotes[sym].price,
                             !.synthetic = quotes[sym].synthetic]]
    /\ runs' = runs + 1
    /\ pre' = <<>>
    /\ UNCHANGED outside
    /\ UNCHANGED <<ledger, quote, rules, ctxBalance, opening, faults>>

\* a tick whose quotes the upstream answers
TickStart(t) == TickFetch(t, {TRUE})

\* Position.getBySymbol: the position of marketContext, read once per symbol;
\* then rules.sort by order_index
TickGetPosition(t) ==
    /\ task[t].pc = "getPosition"
    /\ task' = [task EXCEPT ![t].pc = "evalRule", ![t].ruleIdx = 1,
                            ![t].ctxPos = positions[task[t].symbol]]
    /\ rules' = SortRules(rules)
    /\ pre' = PreAfter(t, task'[t])
    /\ UNCHANGED outside
    /\ UNCHANGED <<ledger, quote, ctxBalance, opening, runs, faults>>

MarketContext(tk) ==
    [symbol |-> tk.symbol, price |-> tk.price, position |-> tk.ctxPos]

\* the loop over sortedRules (the rules array, sorted in place when the
\* position arrived): evaluateRule, then executeAction up to its call of
\* executeBuy / executeSell
EvalRule(t) ==
    /\ task[t].pc = "evalRule"
    /\ LET tk == task[t]
           sortedRules == rules
       IN  IF tk.ruleIdx > Len(sortedRules)
             THEN task' = [task EXCEPT ![t] =
                             IdleTask(IF tk.result = "none" THEN "noFill"
                                      ELSE tk.result)]
             ELSE LET rule == sortedRules[tk.ruleIdx]
                      ctx == MarketContext(tk)
                      q == ActionQuantity(rule.verb, rule.actionValue, ctx,
                                          ctxBalance)
                  IN  IF evaluateRule(rule, ctx, ctxBalance) /\ SubmitsFill(q)
                        THEN task' = [task EXCEPT ![t] =
                                        EnterFill(tk, rule.verb, q.num, tk.price)]
                        ELSE task' = [task EXCEPT ![t].ruleIdx = tk.ruleIdx + 1]
    /\ pre' = PreAfter(t, task'[t])
    /\ UNCHANGED outside
    /\ UNCHANGED <<ledger, quote, rules, ctxBalance, opening, runs, faults>>

-----------------------------------------------------------------------------
(* executeBuy and executeSell, one step per awaited statement *)

\* PaperAccount.getById; executeBuy returns when the balance is short
GetAccount(t) ==
    /\ task[t].pc = "getAccount"
    /\ LET tk == task[t] IN
       task' = [task EXCEPT ![t] =
                  IF tk.side = "buy"
                     /\ InsufficientBalance(balance, Total(tk.quantity, tk.price))
                    THEN LeaveFill(tk, "insufficientBalance")
                    ELSE [tk EXCEPT !.pc = "createOrder", !.account = balance]]
    /\ pre' = PreAfter(t, task'[t])
    /\ UNCHANGED outside
    /\ UNCHANGED <<ledger, quote, rules, ctxBalance, opening, runs, faults>>

\* Order.create: INSERT ... status 'pending'
CreateOrder(t) ==
    /\ task[t].pc = "createOrder"
    /\ orders' = Append(orders,
                        [side |-> task[t].side, symbol |-> task[t].symbol,
                         quantity |-> task[t].quantity, price |-> task[t].price,
                         status |-> "pending", filled_at |-> FALSE])
    /\ task' = [task EXCEPT ![t].pc = "fillOrder", ![t].order = Len(orders) + 1]
    /\ pre' = PreAfter(t, task'[t])
    /\ UNCHANGED outside
    /\ UNCHANGED <<balance, positions, transactions, quote, rules, ctxBalance,
                   opening, runs, faults>>

\* Order.fill: status 'filled', filled_at CURRENT_TIMESTAMP
OrderFill(ords, id) ==
    [ords EXCEPT ![id].status = "filled", ![id].filled_at = TRUE]

FillOrder(t) ==
    /\ task[t].pc = "fillOrder"
    /\ orders' = OrderFill(orders, task[t].order)
    /\ task' = [task EXCEPT ![t].pc = "updateBalance"]
    /\ pre' = PreAfter(t, task'[t])
    /\ UNCHANGED outside
    /\ UNCHANGED <<balance, positions, transactions, quote, rules, ctxBalance,
                   opening, runs, faults>>

\* PaperAccount.updateBalance(accountId, newBalance)
UpdateBalance(t) ==
    /\ task[t].pc = "updateBalance"
    /\ balance' = NewBalance(task[t].side, task[t].account,
                             Total(task[t].quantity, task[t].price))
    /\ task' = [task EXCEPT ![t].pc = "upsertSelect"]
    /\ pre' = PreAfter(t, task'[t])
    /\ UNCHANGED outside
    /\ UNCHANGED <<positions, orders, transactions, quote, rules, ctxBalance,
                   opening, runs, faults>>

\* Position.upsert: the SELECT of the existing row
UpsertSelect(t) ==
    /\ task[t].pc = "upsertSelect"
    /\ task' = [task EXCEPT ![t].pc = "upsertWrite",
                            ![t].existing = positions[task[t].symbol]]
    /\ pre' = PreAfter(t, task'[t])
    /\ UNCHANGED outside
    /\ UNCHANGED <<ledger, quote, rules, ctxBalance, opening, runs, faults>>

\* Position.upsert: what the second statement leaves in positions[symbol].
\* DELETE and UPDATE act on the row that is there now (none: no row changes);
\* the result is <<>> again when the INSERT meets the unique key.
UpsertRows(rowsNow, existing, quantity, averagePrice) ==
    IF existing # <<>>
      THEN IF NewQuantity(existing[1], quantity) = 0
             THEN <<>>
             ELSE IF rowsNow = <<>>
                    THEN <<>>
                    ELSE <<[rowsNow[1] EXCEPT
                              !.quantity = NewQuantity(existing[1], quantity),
                              !.average_price =
                                 NewAveragePrice(existing[1], quantity,
                                                 averagePrice)]>>
      ELSE <<PositionRow(quantity, Frac(averagePrice, 1))>>

\* UNIQUE(account_id, symbol) rejects the INSERT
UniqueViolation(rowsNow, existing) == existing = <<>> /\ rowsNow # <<>>

UpsertWrite(t) ==
    /\ task[t].pc = "upsertWrite"
    /\ LET tk == task[t] IN
       IF UniqueViolation(positions[tk.symbol], tk.existing)
         THEN /\ task' = [task EXCEPT ![t] = LeaveFill(tk, "error")]
              /\ UNCHANGED positions
         ELSE /\ positions' =
                   [positions EXCEPT ![tk.symbol] =
                      UpsertRows(positions[tk.symbol], tk.existing,
                                 SignedQuantity(tk.side, tk.quantity), tk.price)]
              /\ task' = [task EXCEPT ![t].pc = "createTransaction"]
    /\ pre' = PreAfter(t, task'[t])
    /\ UNCHANGED outside
    /\ UNCHANGED <<balance, orders, transactions, quote, rules, ctxBalance,
                   opening, runs, faults>>

\* Transaction.create, after which the fill returns
CreateTransaction(t) ==
    /\ task[t].pc = "createTransaction"
    /\ LET tk == task[t]
           total == Total(tk.quantity, tk.price)
       IN  /\ transactions' =
                Append(transactions,
                       [type |-> tk.side, symbol |-> tk.symbol,
                        quantity |-> tk.quantity, price |-> tk.price,
                        amount |-> SignedAmount(tk.side, total),
                        balance_after |-> NewBalance(tk.side, tk.account, total),
                        order_id |-> tk.order])
           /\ task' = [task EXCEPT ![t] = LeaveFill(tk, "filled")]
    /\ pre' = PreAfter(t, task'[t])
    /\ UNCHANGED outside
    /\ UNCHANGED <<balance, positions, orders, quote, rules, ctxBalance,
                   opening, runs, faults>>

\* a database statement fails.  The route answers 500; a tick ends when the
\* position read fails and goes on with its next rule when a fill throws.
DbPcs == FillPcs \cup {"routeGetPosition", "getPosition"}

DbError(t) ==
    /\ task[t].pc \in DbPcs
    /\ faults < MaxFaults
    /\ faults' = faults + 1
    /\ task' = [task EXCEPT ![t] =
                  IF InFill(t) THEN LeaveFill(task[t], "error")
                  ELSE IdleTask("error")]
    /\ pre' = PreAfter(t, task'[t])
    /\ UNCHANGED outside
    /\ UNCHANGED <<ledger, quote, rules, ctxBalance, opening, runs>>

-----------------------------------------------------------------------------
(* The other operations of the Order model, called on any stored order *)

Statuses == {"pending", "filled", "cancelled"}

\* Order.updateStatus: filled_at is the time for 'filled' and null otherwise
OrderUpdateStatus(ords, id, status) ==
    [ords EXCEPT ![id].status = status, ![id].filled_at = (status = "filled")]

\* (variant with a slip: the WHERE clause without the status)
CancelAppliesAlways(order) == TRUE

\* Order.cancel: UPDATE ... WHERE id = ? AND status = 'pending'
CancelApplies(order) == order.status = "pending"

OrderCancel(ords, id) ==
    IF CancelApplies(ords[id]) THEN [ords EXCEPT ![id].status = "cancelled"]
    ELSE ords

UpdateStatus ==
    /\ \E id \in 1..Len(orders), status \in Statuses :
         orders' = OrderUpdateStatus(orders, id, status)
    /\ UNCHANGED outside
    /\ UNCHANGED <<balance, positions, transactions, task, quote, rules,
                   ctxBalance, opening, pre, runs, faults>>

\* changes = 0 rejects with 'Order cannot be cancelled' and leaves the row
Cancel ==
    /\ \E id \in 1..Len(orders) : orders' = OrderCancel(orders, id)
    /\ UNCHANGED outside
    /\ UNCHANGED <<balance, positions, transactions, task, quote, rules,
                   ctxBalance, opening, pre, runs, faults>>

-----------------------------------------------------------------------------
(* the requests and the market, one after the other *)

\* nobody is between two statements
AllQuiet == req.pc = "idle" /\ \A t \in Tasks : task[t].pc = "idle"

\* the market moves (up, in the model)
QuoteChange ==
    /\ \E p \in Prices : p > quote /\ quote' = p
    /\ AllQuiet
    /\ UNCHANGED <<ledger, task, rules, ctxBalance, opening, pre, runs, faults>>
    /\ UNCHANGED outside

-----------------------------------------------------------------------------
(* GET /paper-trading/account and /portfolio; POST /account/reset *)

RequestKinds == {"view", "reset"}

\* a request arrives
AccountRequest(kind) ==
    /\ req.pc = "idle"
    /\ req' = [NoRequest EXCEPT !.pc = "getOrCreate", !.kind = kind]
    /\ runs' = runs + 1
    /\ pre' = <<>>
    /\ UNCHANGED <<ledger, task, quote, rules, ctxBalance, opening, faults>>
    /\ UNCHANGED <<engine, bt, probe, acct, NODE_ENV, books>>

\* PaperAccount.getOrCreate: the account row
RequestGetAccount ==
    /\ req.pc = "getOrCreate"
    /\ req' = [req EXCEPT !.balance = balance,
                          !.pc = IF req.kind = "view" THEN "getByAccount"
                                 ELSE "clearPositions"]
    /\ pre' = <<>>
    /\ UNCHANGED <<ledger, task, quote, rules, ctxBalance, opening, runs, faults>>
    /\ UNCHANGED <<engine, bt, probe, acct, NODE_ENV, books>>

\* Position.getByAccount; with no position the view goes on to the stats
ViewGetPositions ==
    /\ req.pc = "getByAccount"
    /\ LET held == {sym \in Symbols : positions[sym] # <<>>}
       IN  req' = [req EXCEPT !.symbols = held,
                              !.pc = IF held = {} THEN "getStats"
                                     ELSE "getMultipleQuotes"]
    /\ pre' = <<>>
    /\ UNCHANGED <<ledger, task, quote, rules, ctxBalance, opening, runs, faults>>
    /\ UNCHANGED <<engine, bt, probe, acct, NODE_ENV, books>>

\* marketData.getMultipleQuotes(symbols)
ViewGetQuotes ==
    /\ req.pc = "getMultipleQuotes"
    /\ \E fetched \in [req.symbols -> BOOLEAN],
          mock \in [req.symbols -> MockPrices] :
         req' = [req EXCEPT
                   !.quotes = <<getMultipleQuotes(req.symbols, fetched, mock)>>,
                   !.pc = "updateMarketValue"]
    /\ pre' = <<>>
    /\ UNCHANGED <<ledger, task, quote, rules, ctxBalance, opening, runs, faults>>
    /\ UNCHANGED <<engine, bt, probe, acct, NODE_ENV, books>>

\* Position.updateMarketValue: UPDATE positions SET current_price = $1,
\* market_value = quantity * $1 WHERE account_id = $2 AND symbol = $3
updateMarketValue(rows, currentPrice) ==
    IF rows = <<>> THEN rows
    ELSE <<[rows[1] EXCEPT
              !.market = <<[current_price |-> currentPrice,
                            market_value |-> rows[1].quantity * currentPrice]>>]>>

\* the loop over the positions read, one UPDATE per quoted symbol
ViewUpdateMarketValue ==
    /\ req.pc = "updateMarketValue"
    /\ positions' =
         [sym \in Symbols |->
            IF sym \in req.symbols /\ sym \in DOMAIN req.quotes[1]
              THEN updateMarketValue(positions[sym], req.quotes[1][sym].price)
              ELSE positions[sym]]
    /\ req' = [req EXCEPT !.pc = "getTotalValue"]
    /\ pre' = <<>>
    /\ UNCHANGED <<balance, orders, transactions, task, quote, rules,
                   ctxBalance, opening, runs, faults>>
    /\ UNCHANGED <<engine, bt, probe, acct, NODE_ENV, books>>

\* SELECT COALESCE(SUM(market_value), 0): a NULL market_value adds nothing
RECURSIVE getTotalValue(_, _)
getTotalValue(pos, syms) ==
    IF syms = {} THEN 0
    ELSE LET sym == CHOOSE x \in syms : TRUE
         IN  (IF pos[sym] = <<>> \/ pos[sym][1].market = <<>> THEN 0
              ELSE pos[sym][1].market[1].market_value)
             + getTotalValue(pos, syms \ {sym})

ViewGetTotalValue ==
    /\ req.pc = "getTotalValue"
    /\ req' = [req EXCEPT !.positionsValue = getTotalValue(positions, Symbols),
                          !.pc = "updateTotalValue"]
    /\ pre' = <<>>
    /\ UNCHANGED <<ledger, task, quote, rules, ctxBalance, opening, runs, faults>>
    /\ UNCHANGED <<engine, bt, probe, acct, NODE_ENV, books>>

\* PaperAccount.updateTotalValue(account.id, account.balance + positionsValue)
ViewUpdateTotalValue ==
    /\ req.pc = "updateTotalValue"
    /\ acct' = [acct EXCEPT !.total_value = req.balance + req.positionsValue]
    /\ req' = [req EXCEPT !.pc = "getStats"]
    /\ pre' = <<>>
    /\ UNCHANGED <<ledger, task, quote, rules, ctxBalance, opening, runs, faults>>
    /\ UNCHANGED <<engine, bt, probe, NODE_ENV, books>>

\* PaperAccount.getStats and the response
ViewGetStats ==
    /\ req.pc = "getStats"
    /\ req' = [NoRequest EXCEPT !.kind = req.kind, !.result = "200"]
    /\ pre' = <<>>
    /\ UNCHANGED <<ledger, task, quote, rules, ctxBalance, opening, runs, faults>>
    /\ UNCHANGED <<engine, bt, probe, acct, NODE_ENV, books>>

\* Position.clearAll: DELETE FROM positions WHERE account_id = $1
ResetClearPositions ==
    /\ req.pc = "clearPositions"
    /\ positions' = [sym \in Symbols |-> <<>>]
    /\ req' = [req EXCEPT !.pc = "clearTransactions"]
    /\ pre' = <<>>
    /\ UNCHANGED <<balance, orders, transactions, task, quote, rules,
                   ctxBalance, opening, runs, faults>>
    /\ UNCHANGED <<engine, bt, probe, acct, NODE_ENV, books>>

\* Transaction.clearAll: DELETE FROM transactions WHERE account_id = ?
ResetClearTransactions ==
    /\ req.pc = "clearTransactions"
    /\ transactions' = <<>>
    /\ req' = [req EXCEPT !.pc = "resetSelect"]
    /\ pre' = <<>>
    /\ UNCHANGED <<balance, positions, orders, task, quote, rules,
                   ctxBalance, opening, runs, faults>>
    /\ UNCHANGED <<engine, bt, probe, acct, NODE_ENV, books>>

\* PaperAccount.reset: SELECT initial_balance
ResetSelect ==
    /\ req.pc = "resetSelect"
    /\ req' = [req EXCEPT !.initial = acct.initial_balance,
                          !.pc = "resetUpdate"]
    /\ pre' = <<>>
    /\ UNCHANGED <<ledger, task, quote, rules, ctxBalance, opening, runs, faults>>
    /\ UNCHANGED <<engine, bt, probe, acct, NODE_ENV, books>>

\* (variant with a slip: total_value is left as it is)
resetRowBalanceOnly(row, initial) == [row EXCEPT !.balance = initial]

\* UPDATE paper_accounts SET balance = $1, total_value = $1
resetRow(row, initial) ==
    [row EXCEPT !.balance = initial, !.total_value = initial]

\* PaperAccount.reset: the UPDATE, and the response
ResetUpdate ==
    /\ req.pc = "resetUpdate"
    /\ LET row == resetRow([balance |-> balance,
                            initial_balance |-> acct.initial_balance,
                            total_value |-> acct.total_value], req.initial)
       IN  /\ balance' = row.balance
           /\ acct' = [initial_balance |-> row.initial_balance,
                       total_value |-> row.total_value]
    /\ req' = [NoRequest EXCEPT !.kind = req.kind, !.result = "200"]
    /\ pre' = <<>>
    /\ UNCHANGED <<positions, orders, transactions, task, quote, rules,
                   ctxBalance, opening, runs, faults>>
    /\ UNCHANGED <<engine, bt, probe, NODE_ENV, books>>

\* a statement of the request rejects: the route answers 500
RequestDbError ==
    /\ req.pc \notin {"idle", "getMultipleQuotes"}
    /\ faults < MaxFaults
    /\ faults' = faults + 1
    /\ req' = [NoRequest EXCEPT !.kind = req.kind, !.result = "500"]
    /\ pre' = <<>>
    /\ UNCHANGED <<ledger, task, quote, rules, ctxBalance, opening, runs>>
    /\ UNCHANGED <<engine, bt, probe, acct, NODE_ENV, books>>

RequestStep ==
    \/ RequestGetAccount
    \/ ViewGetPositions
    \/ ViewGetQuotes
    \/ ViewUpdateMarketValue
    \/ ViewGetTotalValue
    \/ ViewUpdateTotalValue
    \/ ViewGetStats
    \/ ResetClearPositions
    \/ ResetClearTransactions
    \/ ResetSelect
    \/ ResetUpdate
    \/ RequestDbError

-----------------------------------------------------------------------------
(* PUT and DELETE /algorithms/:algorithmId/rules/:ruleId *)

\* TradingAlgorithm.findById(id, userId):
\* SELECT * FROM trading_algorithms WHERE id = ? AND user_id = ?
findById(id, userId) ==
    IF /\ id \in DOMAIN algorithms
       /\ algorithms[id] # <<>>
       /\ algorithms[id][1].user_id = userId
      THEN algorithms[id]
      ELSE <<>>

\* the order_index of the request body: absent, or a number
BodyIndexes == {<<>>, <<0>>, <<1>>}

\* AlgorithmRule.update(id, updates): no field given changes nothing;
\* else UPDATE algorithm_rules SET ... WHERE id = ?
AlgorithmRuleUpdate(table, id, order_index) ==
    IF order_index = <<>> \/ id \notin DOMAIN table \/ table[id] = <<>>
      THEN [table |-> table, changes |-> 0]
      ELSE [table |-> [table EXCEPT
                         ![id] = <<[table[id][1] EXCEPT
                                      !.order_index = order_index[1]]>>],
            changes |-> 1]

\* AlgorithmRule.delete(id): DELETE FROM algorithm_rules WHERE id = ?
AlgorithmRuleDelete(table, id) ==
    IF id \notin DOMAIN table \/ table[id] = <<>>
      THEN [table |-> table, changes |-> 0]
      ELSE [table |-> [table EXCEPT ![id] = <<>>], changes |-> 1]

\* the handler, given what the model call does
RuleRequest(kind, user, algorithmId, ruleId, done) ==
    IF findById(algorithmId, user) = <<>>
      THEN /\ algorithm_rules' = algorithm_rules
           /\ reply' = [kind |-> kind, user |-> user,
                        algorithmId |-> algorithmId, ruleId |-> ruleId,
                        status |-> 404]
           /\ UNCHANGED algorithms
      ELSE /\ algorithm_rules' = done.table
           /\ reply' = [kind |-> kind, user |-> user,
                        algorithmId |-> algorithmId, ruleId |-> ruleId,
                        status |-> IF done.changes = 0 THEN 404 ELSE 200]
           /\ UNCHANGED algorithms

\* PUT /:algorithmId/rules/:ruleId
PutRule ==
    /\ \E user \in Users, algorithmId \in RequestIds, ruleId \in RequestIds,
          order_index \in BodyIndexes :
         RuleRequest("put", user, algorithmId, ruleId,
                     AlgorithmRuleUpdate(algorithm_rules, ruleId, order_index))
    /\ UNCHANGED <<trade, engine, bt, probe, acct, req, NODE_ENV, cachebook>>

\* DELETE /:algorithmId/rules/:ruleId
DeleteRule ==
    /\ \E user \in Users, algorithmId \in RequestIds, ruleId \in RequestIds :
         RuleRequest("delete", user, algorithmId, ruleId,
                     AlgorithmRuleDelete(algorithm_rules, ruleId))
    /\ UNCHANGED <<trade, engine, bt, probe, acct, req, NODE_ENV, cachebook>>

-----------------------------------------------------------------------------
(* BacktestEngine.simulateTrades *)

\* the historical data handed to simulateTrades: the closes of the bars
BarSeqs == UNION {[1..n -> Prices] : n \in 1..MaxBars}

\* (variant with a slip: the price is the quote of the moment, not the bar's
\* close)
BarContextLiveQuote(price, cash, position) ==
    [symbol |-> "AAPL", price |-> quote, position |-> position,
     balance |-> cash]

\* marketContext of a bar: the position and the balance at its start (with
\* fewer than 15 bars calculateIndicators adds nothing)
BarContext(price, cash, position) ==
    [symbol |-> "AAPL", price |-> price, position |-> position,
     balance |-> cash]

\* marketContext[name] in the backtest: the context carries balance
BacktestContextField(ctx, name) ==
    IF name = "balance" THEN JNum(ctx.balance, 1) ELSE ContextField(ctx, name)

\* BacktestEngine.evaluateRule
backtestEvaluateRule(rule, ctx) ==
    LET field == rule.condition_field
        fieldValue ==
            IF field \in PositionFields
              THEN (IF ctx.position = <<>> THEN JUndef
                    ELSE PositionField(ctx.position[1], field))
            ELSE BacktestContextField(ctx, field)
        parsed == ParseFloat(rule.condition_value)
        looked == BacktestContextField(ctx, rule.condition_value.text)
        compareValue ==
            IF parsed.t # "NaN" THEN parsed
            ELSE IF looked.t # "number" \/ looked.num = 0 THEN JNum(0, 1)
            ELSE looked
    IN  /\ fieldValue.t # "undefined"
        /\ Compare(rule.condition_operator, fieldValue, compareValue)

\* the reason of a trade a rule made (`Rule ${rule.id}: ${rule.rule_type}`)
\* and of the closing trade
RuleReason == "Rule"
EndReason == "End of backtest period"

\* (variant with a slip: a buy is not held back by an open position)
backtestExecuteActionBuysAgain(rule, ctx, cash, position) ==
    LET q == ActionQuantity(rule.verb, rule.actionValue,
                            [ctx EXCEPT !.position = position], cash)
    IN  IF rule.verb = "buy"
          THEN IF SubmitsFill(q) /\ cash >= q.num * ctx.price
                 THEN << [side |-> "buy", quantity |-> q.num,
                          price |-> ctx.price, reason |-> RuleReason] >>
                 ELSE <<>>
        ELSE IF rule.verb = "sell" /\ position # <<>>
          THEN IF SubmitsFill(q)
                 THEN << [side |-> "sell", quantity |-> q.num,
                          price |-> ctx.price,
                          pl |-> q.num * ctx.price
                                   - q.num * position[1].average_price.num,
                          reason |-> RuleReason] >>
                 ELSE <<>>
        ELSE <<>>

\* BacktestEngine.executeAction: the trade or none.  The quantity is
\* computed as in the live executeAction, from the running balance and
\* position.
backtestExecuteAction(rule, ctx, cash, position) ==
    LET q == ActionQuantity(rule.verb, rule.actionValue,
                            [ctx EXCEPT !.position = position], cash)
    IN  IF rule.verb = "buy" /\ position = <<>>
          THEN IF SubmitsFill(q) /\ cash >= q.num * ctx.price
                 THEN << [side |-> "buy", quantity |-> q.num,
                          price |-> ctx.price, reason |-> RuleReason] >>
                 ELSE <<>>
        ELSE IF rule.verb = "sell" /\ position # <<>>
          THEN IF SubmitsFill(q)
                 THEN << [side |-> "sell", quantity |-> q.num,
                          price |-> ctx.price,
                          pl |-> q.num * ctx.price
                                   - q.num * position[1].average_price.num,
                          reason |-> RuleReason] >>
                 ELSE <<>>
        ELSE <<>>

\* (variant with a slip: the position is left open at the end)
closeOpenPositionSkipped(b) == [b EXCEPT !.pc = "done"]

\* `if (position)` after the loop: the open position is sold at the last
\* bar's close
closeOpenPosition(b) ==
    IF b.position = <<>> THEN [b EXCEPT !.pc = "done"]
    ELSE LET lastBar == b.bars[Len(b.bars)]
             proceeds == b.position[1].quantity * lastBar
         IN  [b EXCEPT
                !.pc = "done",
                !.trades = Append(b.trades,
                                  [side |-> "sell",
                                   quantity |-> b.position[1].quantity,
                                   price |-> lastBar,
                                   pl |-> proceeds
                                            - b.position[1].quantity
                                                * b.position[1].average_price.num,
                                   reason |-> EndReason]),
                !.balance = b.balance + proceeds,
                !.position = <<>>]

\* (variant with a slip: the position is left out of the total)
EquityPointCashOnly(price, cash, position) ==
    LET positionValue == IF position = <<>> THEN 0
                         ELSE position[1].quantity * price
    IN  [balance |-> cash, position_value |-> positionValue,
         total_value |-> cash]

\* equityCurve.push at the start of a bar
EquityPoint(price, cash, position) ==
    LET positionValue == IF position = <<>> THEN 0
                         ELSE position[1].quantity * price
    IN  [balance |-> cash, position_value |-> positionValue,
         total_value |-> cash + positionValue]

\* simulateTrades begins: its locals, the rules sorted, the first bar's
\* equity point and context (first: the result of an earlier run with the
\* same arguments, for comparison only)
simulateTrades(rs, bars, capital, first) ==
    [pc |-> "bar", given |-> rs, initialCapital |-> capital,
     rules |-> SortRules(rs), bars |-> bars, i |-> 1, ruleIdx |-> 1,
     balance |-> capital, position |-> <<>>,
     context |-> <<BarContext(bars[1], capital, <<>>)>>,
     trades |-> <<>>,
     equityCurve |-> <<EquityPoint(bars[1], capital, <<>>)>>,
     result |-> <<>>, first |-> first]

\* runBacktest reaches simulateTrades
RunBacktest ==
    /\ bt.pc = "idle"
    /\ \E rs \in BacktestRuleSets, bars \in BarSeqs, capital \in StartBalances :
         bt' = simulateTrades(rs, bars, capital, <<>>)
    /\ UNCHANGED <<trade, engine, probe, desk>>

\* runBacktest is called once more with the arguments of the run that ended
\* and the same historical data
RunBacktestAgain ==
    /\ bt.pc = "done"
    /\ bt.first = <<>>
    /\ bt' = simulateTrades(bt.given, bt.bars, bt.initialCapital, bt.result)
    /\ UNCHANGED <<trade, engine, probe, desk>>

\* one turn of the loop over sortedRules within a bar
BarRule ==
    /\ bt.pc = "bar"
    /\ bt.ruleIdx <= Len(bt.rules)
    /\ LET rule == bt.rules[bt.ruleIdx]
           ctx == bt.context[1]
           tr == IF backtestEvaluateRule(rule, ctx)
                   THEN backtestExecuteAction(rule, ctx, bt.balance,
                                              bt.position)
                   ELSE <<>>
       IN  bt' = IF tr = <<>> THEN [bt EXCEPT !.ruleIdx = bt.ruleIdx + 1]
                 ELSE IF tr[1].side = "buy"
                   THEN [bt EXCEPT
                           !.ruleIdx = bt.ruleIdx + 1,
                           !.trades = Append(bt.trades, tr[1]),
                           !.balance = bt.balance - tr[1].quantity * tr[1].price,
                           !.position =
                              <<PositionRow(tr[1].quantity,
                                            Frac(tr[1].price, 1))>>]
                 ELSE [bt EXCEPT
                         !.ruleIdx = bt.ruleIdx + 1,
                         !.trades = Append(bt.trades, tr[1]),
                         !.balance = bt.balance + tr[1].quantity * tr[1].price,
                         !.position = <<>>]
    /\ UNCHANGED <<trade, engine, probe, desk>>

\* the rules of the bar are done: the next bar's context is built
NextBar ==
    /\ bt.pc = "bar"
    /\ bt.ruleIdx > Len(bt.rules)
    /\ bt.i < Len(bt.bars)
    /\ bt' = [bt EXCEPT !.i = bt.i + 1, !.ruleIdx = 1,
                        !.equityCurve =
                           Append(bt.equityCurve,
                                  EquityPoint(bt.bars[bt.i + 1], bt.balance,
                                              bt.position)),
                        !.context = <<BarContext(bt.bars[bt.i + 1], bt.balance,
                                                 bt.position)>>]
    /\ UNCHANGED <<trade, engine, probe, desk>>

\* trades.filter(...).length: the trades of a side with a pl in the set (a
\* buy has no pl)
Sells(trades) == {k \in 1..Len(trades) : trades[k].side = "sell"}

\* calculateMetrics: the metrics counted from the trades and the final
\* balance (max_drawdown and sharpe_ratio are computed from the equity
\* curve alone)
calculateMetrics(results, initialCapital) ==
    LET trades == results.trades
    IN  [initial_capital |-> initialCapital,
         final_capital |-> results.finalBalance,
         total_return |-> results.finalBalance - initialCapital,
         total_trades |-> Cardinality(Sells(trades)),
         winning_trades |->
            Cardinality({k \in Sells(trades) : trades[k].pl > 0}),
         losing_trades |->
            Cardinality({k \in Sells(trades) : trades[k].pl < 0})]

\* what runBacktest returns: the metrics, the trades and the equity curve
BacktestResult(b) ==
    [metrics |-> calculateMetrics([trades |-> b.trades,
                                   finalBalance |-> b.balance],
                                  b.initialCapital),
     trades |-> b.trades,
     equity_curve |-> b.equityCurve]

\* after the last bar an open position is sold at the last close, and the
\* metrics are calculated
EndBacktest ==
    /\ bt.pc = "bar"
    /\ bt.ruleIdx > Len(bt.rules)
    /\ bt.i = Len(bt.bars)
    /\ bt' = [closeOpenPosition(bt) EXCEPT
                !.result = <<BacktestResult(closeOpenPosition(bt))>>]
    /\ UNCHANGED <<trade, engine, probe, desk>>

-----------------------------------------------------------------------------
(* The two evaluators and the executor, called on a rule and a context *)

\* condition_field and condition_value are free text: names the context has,
\* a position field the position sub-record does not have, an indicator
\* that is not in the context
ProbeFields ==
    {"price", "balance", "position.quantity", "position.averagePrice",
     "position.bogus", "sma_20"}
ProbeOperators == {">", "<", ">=", "<=", "==", "=", "!=", "~"}
ProbeValues ==
    {Lit(0), Lit(2), Lit(3), Word("price"), Word("balance"), Word("sma_20"),
     Word("abc")}
ProbeActions ==
    {<<"buy", Lit(1)>>, <<"buy", Lit(3)>>, <<"buy", Pct(29)>>,
     <<"buy", Pct(50)>>, <<"buy", Word("max")>>,
     <<"sell", Lit(1)>>, <<"sell", Lit(3)>>, <<"sell", Pct(29)>>,
     <<"sell", Pct(50)>>, <<"sell", Pct(150)>>, <<"sell", Word("all")>>}
ProbePrices == {1, 2, 3}
ProbePositions ==
    {<<>>, <<PositionRow(2, Frac(2, 1))>>, <<PositionRow(100, Frac(3, 1))>>}
ProbeBalances == {5, 100}

\* a rule and a market context reach evaluateRule
GiveRule ==
    /\ probe.pc = "none"
    /\ \E f \in ProbeFields, op \in ProbeOperators, v \in ProbeValues,
          pr \in ProbePrices, pos \in ProbePositions, b \in ProbeBalances :
         probe' = [NoProbe EXCEPT
                     !.pc = "rule",
                     !.rule = Rule(0, f, op, v, "buy", Lit(1)),
                     !.context = [symbol |-> "AAPL", price |-> pr,
                                  position |-> pos],
                     !.balance = b]
    /\ UNCHANGED <<trade, engine, bt, desk>>

\* evaluateRule of the live engine and of the backtest engine on the same
\* rule and context (the backtest's context carries the balance)
Evaluate ==
    /\ probe.pc = "rule"
    /\ probe' = [probe EXCEPT
                   !.pc = "evaluated",
                   !.fires = evaluateRule(probe.rule, probe.context,
                                          probe.balance),
                   !.backtestFires =
                      backtestEvaluateRule(
                          probe.rule,
                          BarContext(probe.context.price, probe.balance,
                                     probe.context.position))]
    /\ UNCHANGED <<trade, engine, bt, desk>>

\* a rule that fired reaches executeAction
GiveAction ==
    /\ probe.pc = "none"
    /\ \E a \in ProbeActions, pr \in ProbePrices, pos \in ProbePositions,
          b \in ProbeBalances :
         probe' = [NoProbe EXCEPT
                     !.pc = "action",
                     !.rule = Rule(0, "price", ">", Lit(0), a[1], a[2]),
                     !.context = [symbol |-> "AAPL", price |-> pr,
                                  position |-> pos],
                     !.balance = b,
                     !.fires = TRUE]
    /\ UNCHANGED <<trade, engine, bt, desk>>

\* executeAction up to its `if (quantity > 0)`
Execute ==
    /\ probe.pc = "action"
    /\ probe' = [probe EXCEPT
                   !.pc = "executed",
                   !.quantity = ActionQuantity(probe.rule.verb,
                                               probe.rule.actionValue,
                                               probe.context, probe.balance)]
    /\ UNCHANGED <<trade, engine, bt, desk>>

\* calculateSMA(data, period): whether the last element is a number (null
\* for i < period - 1)
SmaLast(len, period) == len - 1 >= period - 1

\* calculateRSI(data, period): whether the last element is a number (the
\* values are filled in only `if (data.length > period)`)
RsiLast(len, period) == len > period

\* calculateIndicators(historicalData, currentIndex): the keys of the object
\* it returns whose value is a number
calculateIndicators(currentIndex) ==
    IF currentIndex < 14 THEN {}
    ELSE LET from == IF currentIndex - 50 > 0 THEN currentIndex - 50 ELSE 0
             recentData == (currentIndex + 1) - from
         IN  {k \in {"sma_20"} : recentData >= 20 /\ SmaLast(recentData, 20)}
               \cup
             {k \in {"sma_50"} : recentData >= 50 /\ SmaLast(recentData, 50)}
               \cup
             {k \in {"rsi"} : recentData >= 14 /\ RsiLast(recentData, 14)}

\* historical data and the index of a bar in it reach calculateIndicators
GiveBars ==
    /\ probe.pc = "none"
    /\ \E n \in 1..MaxHistory, i \in 0..(MaxHistory - 1) :
         /\ i < n
         /\ probe' = [NoProbe EXCEPT !.pc = "bars", !.bars = n,
                                     !.currentIndex = i]
    /\ UNCHANGED <<trade, engine, bt, desk>>

\* Object.assign(marketContext, this.calculateIndicators(historicalData, i))
Indicate ==
    /\ probe.pc = "bars"
    /\ probe' = [probe EXCEPT
                   !.pc = "indicated",
                   !.indicators = calculateIndicators(probe.currentIndex)]
    /\ UNCHANGED <<trade, engine, bt, desk>>

-----------------------------------------------------------------------------
(* ExecutionEngine: startAlgorithm, stopAlgorithm and the timers *)

\* what TradingAlgorithm.getById resolves to: no row, or the row of the id
AlgorithmRows ==
    {<<>>} \cup {<<[user_id |-> u, is_active |-> a]>> :
                   u \in Users, a \in BOOLEAN}

\* how many rules AlgorithmRule.getByAlgorithm resolves to
RuleCounts == 0..1

\* (variant with a slip: the is_active check left out)
AlgorithmCheckNoActive(row, userId) ==
    IF row = <<>> \/ row[1].user_id # userId THEN "Algorithm not found"
    ELSE "ok"

\* the checks of startAlgorithm on the algorithm row
AlgorithmCheck(row, userId) ==
    IF row = <<>> \/ row[1].user_id # userId THEN "Algorithm not found"
    ELSE IF ~row[1].is_active THEN "Algorithm is not active"
    ELSE "ok"

\* and on its rules
RulesCheck(n) == IF n = 0 THEN "Algorithm has no rules" ELSE "ok"

\* getRunningAlgorithms / isRunning
Running == {id \in AlgIds : runningAlgorithms[id] # <<>>}
isRunning(id) == id \in Running

\* a call of startAlgorithm with its locals algorithm and rules (the number
\* of them; -1 before they are read); wasRunning: history, isRunning(id) at
\* the call
Call(id, userId) ==
    [id |-> id, userId |-> userId, pc |-> "getById", error |-> "none",
     algorithm |-> <<>>, rules |-> -1, wasRunning |-> isRunning(id)]

Threw(call, error) == [call EXCEPT !.pc = "threw", !.error = error]

\* a call of evaluateAlgorithm past its context check, awaiting the quotes;
\* by is the call of startAlgorithm that awaits it, 0 for a timer
Evaluation(id, by) == [id |-> id, by |-> by, pc |-> "quotes"]

RemoveAt(s, i) == SubSeq(s, 1, i - 1) \o SubSeq(s, i + 1, Len(s))

\* the route calls startAlgorithm(id, userId)
StartAlgorithm(id, userId) ==
    /\ Len(calls) < MaxStarts
    /\ calls' = Append(calls, Call(id, userId))
    /\ stopped' = [stopped EXCEPT ![id] = FALSE]
    /\ UNCHANGED logged
    /\ UNCHANGED <<runningAlgorithms, intervals, timers, evals>>
    /\ UNCHANGED <<trade, bt, probe, desk>>

\* TradingAlgorithm.getById resolves to one of Rows, and the checks on it
GetByIdResolves(c, Rows) ==
    /\ c \in DOMAIN calls
    /\ calls[c].pc = "getById"
    /\ \E row \in Rows :
         calls' = [calls EXCEPT ![c] =
                     IF AlgorithmCheck(row, calls[c].userId) = "ok"
                       THEN [calls[c] EXCEPT !.pc = "getByAlgorithm",
                                             !.algorithm = row]
                       ELSE Threw([calls[c] EXCEPT !.algorithm = row],
                                  AlgorithmCheck(row, calls[c].userId))]
    /\ UNCHANGED <<runningAlgorithms, intervals, timers, evals, stopped, logged>>
    /\ UNCHANGED <<trade, bt, probe, desk>>

\* whatever the table holds
StartGetById(c) ==
    /\ c \in DOMAIN calls
    /\ GetByIdResolves(c, AlgorithmRows)

\* the row the table holds for the id
StartGetByIdStored(c) ==
    /\ c \in DOMAIN calls
    /\ GetByIdResolves(c, {algorithms[calls[c].id]})

\* the rules stored for algorithm id
RulesOf(id) ==
    {r \in RuleIds : /\ algorithm_rules[r] # <<>>
                     /\ algorithm_rules[r][1].algorithm_id = id}

\* AlgorithmRule.getByAlgorithm resolves to one of Counts rules, and the
\* check on them
GetByAlgorithmResolves(c, Counts) ==
    /\ c \in DOMAIN calls
    /\ calls[c].pc = "getByAlgorithm"
    /\ \E n \in Counts :
         calls' = [calls EXCEPT ![c] =
                     IF RulesCheck(n) = "ok"
                       THEN [calls[c] EXCEPT !.pc = "getOrCreate", !.rules = n]
                       ELSE Threw([calls[c] EXCEPT !.rules = n],
                                  RulesCheck(n))]
    /\ UNCHANGED <<runningAlgorithms, intervals, timers, evals, stopped, logged>>
    /\ UNCHANGED <<trade, bt, probe, desk>>

\* however many rules the table holds
StartGetByAlgorithm(c) ==
    /\ c \in DOMAIN calls
    /\ GetByAlgorithmResolves(c, RuleCounts)

\* the rules the table holds for the id
StartGetByAlgorithmStored(c) ==
    /\ c \in DOMAIN calls
    /\ GetByAlgorithmResolves(c, {Cardinality(RulesOf(calls[c].id))})

\* PaperAccount.getOrCreate resolves; then, without an await in between,
\* runningAlgorithms.set, setInterval, intervals.set and the call of
\* evaluateAlgorithm, which finds the context just stored
StartRegister(c) ==
    /\ c \in DOMAIN calls
    /\ calls[c].pc = "getOrCreate"
    /\ LET id == calls[c].id IN
         /\ runningAlgorithms' = [runningAlgorithms EXCEPT ![id] = <<c>>]
         /\ timers' = timers \cup {c}
         /\ intervals' = [intervals EXCEPT ![id] = <<c>>]
         /\ evals' = Append(evals, Evaluation(id, c))
    /\ calls' = [calls EXCEPT ![c].pc = "evaluate"]
    /\ UNCHANGED <<stopped, logged>>
    /\ UNCHANGED <<trade, bt, probe, desk>>

\* one of the three reads of startAlgorithm rejects
StartDbError(c) ==
    /\ c \in DOMAIN calls
    /\ calls[c].pc \in {"getById", "getByAlgorithm", "getOrCreate"}
    /\ calls' = [calls EXCEPT ![c] = Threw(calls[c], "database")]
    /\ UNCHANGED <<runningAlgorithms, intervals, timers, evals, stopped, logged>>
    /\ UNCHANGED <<trade, bt, probe, desk>>

\* a timer of setInterval fires: evaluateAlgorithm returns at once when the
\* id has no context, else it asks for the quotes
TimerFire(h) ==
    /\ h \in timers
    /\ runningAlgorithms[calls[h].id] # <<>>
    /\ Len(evals) < MaxEvals
    /\ evals' = Append(evals, Evaluation(calls[h].id, 0))
    /\ UNCHANGED <<runningAlgorithms, intervals, timers, calls, stopped, logged>>
    /\ UNCHANGED <<trade, bt, probe, desk>>

\* the quotes arrive: the evaluation goes on to its rules and fills
EvalQuotes(e) ==
    /\ e \in DOMAIN evals
    /\ evals[e].pc = "quotes"
    /\ evals' = [evals EXCEPT ![e].pc = "rules"]
    /\ UNCHANGED <<runningAlgorithms, intervals, timers, calls, stopped, logged>>
    /\ UNCHANGED <<trade, bt, probe, desk>>

\* (variants with a slip: an error of the evaluation clears the timers of the
\* algorithm; startAlgorithm throws when its first evaluation failed)
TimersAfterEvaluationStopOnError(tms, id, failed) ==
    IF failed THEN {h \in tms : calls[h].id # id} ELSE tms
CallAfterEvaluationRethrow(call, failed) ==
    IF failed THEN Threw(call, "evaluation")
    ELSE [call EXCEPT !.pc = "returned"]

\* evaluateAlgorithm ends, with all rules done or in its catch block, which
\* only logs: the timers stay and startAlgorithm goes on to return
TimersAfterEvaluation(tms, id, failed) == tms
CallAfterEvaluation(call, failed) == [call EXCEPT !.pc = "returned"]

EvalEnds(e, failed) ==
    /\ timers' = TimersAfterEvaluation(timers, evals[e].id, failed)
    /\ evals' = RemoveAt(evals, e)
    /\ calls' = IF evals[e].by = 0 THEN calls
                ELSE [calls EXCEPT ![evals[e].by] =
                        CallAfterEvaluation(calls[evals[e].by], failed)]
    /\ logged' = IF failed
                   THEN [logged EXCEPT ![evals[e].id] =
                           @ \cup {IF evals[e].by = 0 THEN "timer" ELSE "start"}]
                   ELSE logged
    /\ UNCHANGED <<runningAlgorithms, intervals, stopped>>
    /\ UNCHANGED <<trade, bt, probe, desk>>

EvalFinish(e) ==
    /\ e \in DOMAIN evals
    /\ evals[e].pc = "rules"
    /\ EvalEnds(e, FALSE)

\* the quote service or the position read rejects: catch (error)
EvalError(e) ==
    /\ e \in DOMAIN evals
    /\ evals[e].pc \in {"quotes", "rules"}
    /\ EvalEnds(e, TRUE)

\* the two maps of the engine and the timers they refer to
Registry ==
    [runningAlgorithms |-> runningAlgorithms, intervals |-> intervals,
     timers |-> timers]

\* (variant with a slip: the context is not deleted)
stopAlgorithmKeepsContext(reg, id) ==
    [reg EXCEPT !.timers = IF reg.intervals[id] # <<>>
                             THEN reg.timers \ {reg.intervals[id][1]}
                             ELSE reg.timers,
                !.intervals[id] = <<>>]

\* stopAlgorithm(id), which has no await: clearInterval and intervals.delete
\* when the id has an interval, then runningAlgorithms.delete
stopAlgorithm(reg, id) ==
    [reg EXCEPT !.timers = IF reg.intervals[id] # <<>>
                             THEN reg.timers \ {reg.intervals[id][1]}
                             ELSE reg.timers,
                !.intervals[id] = <<>>,
                !.runningAlgorithms[id] = <<>>]

StopAlgorithm(id) ==
    /\ timers' = stopAlgorithm(Registry, id).timers
    /\ intervals' = stopAlgorithm(Registry, id).intervals
    /\ runningAlgorithms' = stopAlgorithm(Registry, id).runningAlgorithms
    /\ stopped' = [stopped EXCEPT ![id] = TRUE]
    /\ UNCHANGED logged
    /\ UNCHANGED <<calls, evals>>
    /\ UNCHANGED <<trade, bt, probe, desk>>

\* TradingAlgorithm.toggleActive(id, userId): UPDATE trading_algorithms SET
\* is_active = NOT is_active WHERE id = ? AND user_id = ?
toggleActive(table, id, userId) ==
    IF findById(id, userId) = <<>> THEN [table |-> table, changes |-> 0]
    ELSE [table |-> [table EXCEPT
                       ![id] = <<[table[id][1] EXCEPT
                                    !.is_active = ~table[id][1].is_active]>>],
          changes |-> 1]

\* TradingAlgorithm.delete(id, userId): DELETE FROM trading_algorithms WHERE
\* id = ? AND user_id = ? (no statement of it deletes the rules)
TradingAlgorithmDelete(table, id, userId) ==
    IF findById(id, userId) = <<>> THEN [table |-> table, changes |-> 0]
    ELSE [table |-> [table EXCEPT ![id] = <<>>], changes |-> 1]

\* the handler of a request on an algorithm, given what the model call does:
\* it answers 404 or 200 and calls nothing of the execution engine
AlgorithmRequest(kind, user, id, done) ==
    /\ algorithms' = done.table
    /\ reply' = [kind |-> kind, user |-> user, algorithmId |-> id,
                 ruleId |-> 0,
                 status |-> IF done.changes = 0 THEN 404 ELSE 200]
    /\ UNCHANGED algorithm_rules

\* PATCH /:id/toggle
ToggleAlgorithm(id, user) ==
    /\ AlgorithmRequest("toggle", user, id,
                        toggleActive(algorithms, id, user))
    /\ UNCHANGED <<trade, engine, bt, probe, acct, req, NODE_ENV, cachebook>>

\* DELETE /:id
DeleteAlgorithm(id, user) ==
    /\ AlgorithmRequest("deleteAlgorithm", user, id,
                        TradingAlgorithmDelete(algorithms, id, user))
    /\ UNCHANGED <<trade, engine, bt, probe, acct, req, NODE_ENV, cachebook>>

\* DELETE /:algorithmId/rules/:ruleId of a rule of the user's algorithm
DeleteRuleOf(id, user) ==
    /\ \E ruleId \in RulesOf(id) :
         RuleRequest("delete", user, id, ruleId,
                     AlgorithmRuleDelete(algorithm_rules, ruleId))
    /\ UNCHANGED <<trade, engine, bt, probe, acct, req, NODE_ENV, cachebook>>

-----------------------------------------------------------------------------
(* Specifications *)

Step(t) ==
    \/ RouteQuote(t)
    \/ RouteGetPosition(t)
    \/ TickGetPosition(t)
    \/ EvalRule(t)
    \/ GetAccount(t)
    \/ CreateOrder(t)
    \/ FillOrder(t)
    \/ UpdateBalance(t)
    \/ UpsertSelect(t)
    \/ UpsertWrite(t)
    \/ CreateTransaction(t)
    \/ DbError(t)

AllIdle == \A t \in Tasks : task[t].pc = "idle"

\* One request or tick at a time, any number of them one after the other.
Next ==
    \E t \in Tasks :
        \/ AllIdle /\ runs < MaxRuns /\ OrderRequest(t)
        \/ AllIdle /\ runs < MaxRuns /\ TickStart(t)
        \/ Step(t)

Spec == Init /\ [][Next]_vars

\* Two tasks, each one request or one tick, interleaved at every awaited
\* statement.
Fresh(t) == task[t].pc = "idle" /\ task[t].result = "none"

NextConc ==
    \E t \in Tasks :
        \/ Fresh(t) /\ OrderRequest(t)
        \/ Fresh(t) /\ TickStart(t)
        \/ Step(t)

SpecConc == Init /\ [][NextConc]_vars

\* The orders of manual requests, one request at a time, with status updates
\* and cancellations of stored orders arriving at any moment.
NextOrder ==
    \/ \E t \in Tasks :
         \/ AllIdle /\ runs < MaxRuns /\ Len(orders) < MaxOrders /\ OrderRequest(t)
         \/ RouteQuote(t)
         \/ RouteGetPosition(t)
         \/ GetAccount(t)
         \/ CreateOrder(t)
         \/ FillOrder(t)
         \/ UpdateBalance(t)
         \/ UpsertSelect(t)
         \/ UpsertWrite(t)
         \/ CreateTransaction(t)
         \/ DbError(t)
    \/ UpdateStatus
    \/ Cancel

SpecOrder == Init /\ [][NextOrder]_vars

\* Manual orders, views and resets of the account, one request at a time,
\* while the market moves.
ManualStep(t) ==
    \/ RouteQuote(t)
    \/ RouteGetPosition(t)
    \/ GetAccount(t)
    \/ CreateOrder(t)
    \/ FillOrder(t)
    \/ UpdateBalance(t)
    \/ UpsertSelect(t)
    \/ UpsertWrite(t)
    \/ CreateTransaction(t)
    \/ DbError(t)

Clerk == CHOOSE t \in Tasks : TRUE

NextAccount ==
    \/ AllQuiet /\ runs < MaxRuns /\ OrderRequest(Clerk)
    \/ ManualStep(Clerk)
    \/ \E kind \in RequestKinds :
         AllQuiet /\ runs < MaxRuns /\ AccountRequest(kind)
    \/ RequestStep
    \/ QuoteChange

\* the rules of the algorithm play no part in it
InitAccount == Init /\ rules = EntryThenExit

SpecAccount == InitAccount /\ [][NextAccount]_vars

\* One manual order and one reset, interleaved at every awaited statement.
NextAccountConc ==
    \/ Fresh(Clerk) /\ OrderRequest(Clerk)
    \/ ManualStep(Clerk)
    \/ req = NoRequest /\ AccountRequest("reset")
    \/ RequestGetAccount
    \/ ResetClearPositions
    \/ ResetClearTransactions
    \/ ResetSelect
    \/ ResetUpdate
    \/ RequestDbError

SpecAccountConc == InitAccount /\ [][NextAccountConc]_vars

\* Ticks and account views, one at a time, the upstream of the market data
\* service answering or failing each fetch, in either deployment mode.
NextMarket ==
    \/ AllQuiet /\ runs < MaxRuns /\ TickFetch(Clerk, BOOLEAN)
    \/ TickGetPosition(Clerk)
    \/ EvalRule(Clerk)
    \/ GetAccount(Clerk)
    \/ CreateOrder(Clerk)
    \/ FillOrder(Clerk)
    \/ UpdateBalance(Clerk)
    \/ UpsertSelect(Clerk)
    \/ UpsertWrite(Clerk)
    \/ CreateTransaction(Clerk)
    \/ AllQuiet /\ runs < MaxRuns /\ AccountRequest("view")
    \/ RequestGetAccount
    \/ ViewGetPositions
    \/ ViewGetQuotes
    \/ ViewUpdateMarketValue
    \/ ViewGetTotalValue
    \/ ViewUpdateTotalValue
    \/ ViewGetStats
    \/ QuoteChange

\* A backtest and the same backtest once more, while the market moves.
NextRerun ==
    \/ RunBacktest
    \/ BarRule
    \/ NextBar
    \/ EndBacktest
    \/ RunBacktestAgain
    \/ QuoteChange

SpecRerun == Init /\ [][NextRerun]_vars

\* Quotes and historical data asked for through the cache, time passing and
\* the market moving in between.
NextCache == QuoteRequest \/ HistoryRequest \/ Wait \/ QuoteChange

\* the account and the rules play no part in it
InitCache ==
    Init /\ rules = EntryThenExit /\ positions = [sym \in Symbols |-> <<>>]

SpecCache == InitCache /\ [][NextCache]_vars

\* Requests of the users on the rules of the algorithms.
NextRules == PutRule \/ DeleteRule

SpecRules == Init /\ [][NextRules]_vars

InitMarket == InitState /\ NODE_ENV \in Modes /\ rules = EntryThenExit

SpecMarket == InitMarket /\ [][NextMarket]_vars

\* One evaluation at a time: live ticks one after the other, or one backtest
\* over the algorithm's rules.
NextEval ==
    \/ \E t \in Tasks :
         \/ bt.pc = "idle" /\ AllIdle /\ runs < MaxRuns /\ TickStart(t)
         \/ TickGetPosition(t)
         \/ EvalRule(t)
         \/ GetAccount(t)
         \/ CreateOrder(t)
         \/ FillOrder(t)
         \/ UpdateBalance(t)
         \/ UpsertSelect(t)
         \/ UpsertWrite(t)
         \/ CreateTransaction(t)
         \/ DbError(t)
    \/ AllIdle /\ runs = 0 /\ RunBacktest
    \/ BarRule
    \/ NextBar
    \/ EndBacktest

SpecEval == Init /\ [][NextEval]_vars

\* The engine's registry: starts, stops, timer firings and evaluations of the
\* algorithms, interleaved at every await.
NextEngine ==
    \/ \E id \in AlgIds, u \in Callers : StartAlgorithm(id, u)
    \/ \E c \in 1..MaxStarts :
         \/ StartGetById(c)
         \/ StartGetByAlgorithm(c)
         \/ StartRegister(c)
         \/ StartDbError(c)
    \/ \E h \in 1..MaxStarts : TimerFire(h)
    \/ \E e \in 1..MaxEvals :
         \/ EvalQuotes(e)
         \/ EvalFinish(e)
         \/ EvalError(e)
    \/ \E id \in AlgIds : StopAlgorithm(id)

\* the ledger plays no part in it
InitEngine ==
    /\ Init
    /\ positions = [sym \in Symbols |-> <<>>]
    /\ quote = 2
    /\ Len(rules) = 1

SpecEngine == InitEngine /\ [][NextEngine]_vars

\* The engine over the stored algorithms, while their owner toggles and
\* deletes them and deletes their rules.
NextLifecycle ==
    \/ \E id \in AlgIds, u \in Callers : StartAlgorithm(id, u)
    \/ \E c \in 1..MaxStarts :
         \/ StartGetByIdStored(c)
         \/ StartGetByAlgorithmStored(c)
         \/ StartRegister(c)
    \/ \E h \in 1..MaxStarts : TimerFire(h)
    \/ \E e \in 1..MaxEvals :
         \/ EvalQuotes(e)
         \/ EvalFinish(e)
    \/ \E id \in AlgIds : StopAlgorithm(id)
    \/ \E id \in AlgIds, u \in Callers :
         \/ ToggleAlgorithm(id, u)
         \/ DeleteAlgorithm(id, u)
         \/ DeleteRuleOf(id, u)

SpecLifecycle == InitEngine /\ [][NextLifecycle]_vars

\* The evaluators and the executor on one rule and one context at a time
NextProbe == GiveRule \/ Evaluate \/ GiveAction \/ Execute

SpecProbe == InitEngine /\ [][NextProbe]_vars

\* Bars handed to calculateIndicators.
NextIndicators == GiveBars \/ Indicate

SpecIndicators == InitEngine /\ [][NextIndicators]_vars

-----------------------------------------------------------------------------
(* Properties *)

RECURSIVE SumAmounts(_)
SumAmounts(txs) ==
    IF txs = <<>> THEN 0 ELSE Head(txs).amount + SumAmounts(Tail(txs))

\* shares bought minus shares sold of a symbol, by the transactions recorded
RECURSIVE NetShares(_, _)
NetShares(txs, sym) ==
    IF txs = <<>> THEN 0
    ELSE (IF Head(txs).symbol # sym THEN 0
          ELSE IF Head(txs).type = "buy" THEN Head(txs).quantity
          ELSE -Head(txs).quantity)
         + NetShares(Tail(txs), sym)

Held(rows) == IF rows = <<>> THEN 0 ELSE rows[1].quantity

\* the step of task t ends its fill with the given result
FillEnds(t, result) ==
    /\ InFill(t)
    /\ ~InFill(t)'
    /\ task'[t].result = result

\* C1: when two interleaved fills have ended (no statement having failed), the
\* balance is the opening balance plus the signed amounts of the recorded
\* transactions, and every position holds its opening quantity plus the shares
\* bought minus the shares sold: the outcome of some serial order.
C1_SerialOutcome ==
    (AllIdle /\ faults = 0) =>
        /\ balance = opening.balance + SumAmounts(transactions)
        /\ \A sym \in Symbols :
             Held(positions[sym]) =
               Held(opening.positions[sym]) + NetShares(transactions, sym)

\* C2: a fill that throws leaves the ledger as it was when the fill was
\* called: no new order, the balance, the position and the transactions
\* unchanged.
C2_AllOrNothing ==
    [][\A t \in Tasks :
         (FillEnds(t, "error") /\ pre # <<>>) => Snapshot' = pre[1]]_vars

\* C3: the account balance is never negative.
C3_BalanceNonNegative == balance >= 0

\* two interleaved buys that together cost more than the opening balance
C3_Witness ==
    /\ AllIdle
    /\ Len(transactions) = 2
    /\ opening.balance + SumAmounts(transactions) < 0

\* C4: every stored position row has a quantity above zero.
C4_PositiveQuantity ==
    \A sym \in Symbols :
        positions[sym] # <<>> => positions[sym][1].quantity > 0

\* C5: a sell fill called when the account holds no position of the symbol, or
\* fewer shares than it sells, changes nothing in the ledger.
C5_SellRejected ==
    \A t \in Tasks :
        ( /\ InFill(t)
          /\ task[t].side = "sell"
          /\ pre # <<>>
          /\ InsufficientShares(pre[1].positions[task[t].symbol],
                                task[t].quantity) )
        => Snapshot = pre[1]

\* C6: a buy fill that reads a balance below its cost ends there, rejected,
\* with the ledger unchanged; so does a manual buy the route refuses.
C6_BuyRejected ==
    [][\A t \in Tasks :
         /\ ( /\ task[t].pc = "getAccount"
              /\ task[t].side = "buy"
              /\ balance < Total(task[t].quantity, task[t].price)
              /\ task'[t] # task[t] )
            => /\ ~InFill(t)'
               /\ task'[t].result \in {"insufficientBalance", "error"}
               /\ faults' = faults => task'[t].result = "insufficientBalance"
               /\ ledger' = ledger
         /\ ( /\ task[t].pc = "getQuote"
              /\ task[t].side = "buy"
              /\ task[t].reqAccount < Total(task[t].quantity, quote)
              /\ task'[t] # task[t] )
            => /\ task'[t].pc = "idle"
               /\ task'[t].result = "400"
               /\ ledger' = ledger
      ]_vars

\* a buy of a tick was rejected by executeBuy after an order had been placed
C6_Witness ==
    \E t \in Tasks :
        /\ task[t].result = "insufficientBalance"
        /\ Len(orders) = 1
        /\ Len(transactions) = 1

\* C7: a sell fill of q shares from a position (Q, ap) with 0 < q < Q leaves
\* the position (Q - q, ap).
C7_SellKeepsAverage ==
    [][\A t \in Tasks :
         ( /\ FillEnds(t, "filled")
           /\ task[t].side = "sell"
           /\ pre # <<>>
           /\ pre[1].positions[task[t].symbol] # <<>>
           /\ task[t].quantity < pre[1].positions[task[t].symbol][1].quantity )
         => positions'[task[t].symbol] =
              << PositionRow(
                   pre[1].positions[task[t].symbol][1].quantity
                     - task[t].quantity,
                   pre[1].positions[task[t].symbol][1].average_price) >>
      ]_vars

\* the position the claim gives for a buy of qty at price onto the rows held
BoughtOnto(rows, qty, price) ==
    IF rows = <<>> THEN << PositionRow(qty, Frac(price, 1)) >>
    ELSE << PositionRow(
              rows[1].quantity + qty,
              Frac(rows[1].quantity * rows[1].average_price.num
                     + qty * price * rows[1].average_price.den,
                   rows[1].average_price.den * (rows[1].quantity + qty))) >>

C9_BalanceChain ==
    \A i \in 2..Len(transactions) :
        transactions[i].balance_after =
          transactions[i - 1].balance_after + transactions[i].amount

\* C10: an order's filled_at is set exactly when its status is filled.
C10_FilledAtIffFilled ==
    \A i \in 1..Len(orders) :
        orders[i].filled_at <=> orders[i].status = "filled"

\* an order cancelled while pending
C10_Witness ==
    \E i \in 1..Len(orders) :
        /\ orders[i].status = "cancelled"
        /\ ~orders[i].filled_at
        /\ \E t \in Tasks : task[t].pc = "fillOrder" /\ task[t].order = i

-----------------------------------------------------------------------------
(* Properties of the engine's registry *)

\* C11: a call of startAlgorithm made while the algorithm is running, and
\* reaching the end of its reads with the algorithm running, throws and leaves
\* runningAlgorithms, intervals and the timers as they are.
C11_AlreadyRunning ==
    [][\A c \in 1..MaxStarts :
         ( /\ c \in DOMAIN calls
           /\ calls[c].pc = "getOrCreate"
           /\ calls[c].wasRunning
           /\ isRunning(calls[c].id)
           /\ calls'[c] # calls[c] )
         => /\ calls'[c].pc = "threw"
            /\ runningAlgorithms' = runningAlgorithms
            /\ intervals' = intervals
            /\ timers' = timers
      ]_vars

\* call c of startAlgorithm has left a trace in the engine
Registered(c) ==
    \/ c \in timers
    \/ runningAlgorithms[calls[c].id] = <<c>>
    \/ intervals[calls[c].id] = <<c>>
    \/ \E e \in DOMAIN evals : evals[e].by = c
    \/ calls[c].pc \in {"evaluate", "returned"}

\* C12: a call of startAlgorithm registers a context, a timer or an
\* evaluation only if it read an algorithm row that exists, belongs to the
\* calling user and is active, and at least one rule; every other call
\* throws with nothing registered.
C12_StartValidates ==
    \A c \in DOMAIN calls :
        /\ Registered(c) =>
             /\ calls[c].algorithm # <<>>
             /\ calls[c].algorithm[1].user_id = calls[c].userId
             /\ calls[c].algorithm[1].is_active
             /\ calls[c].rules > 0
        /\ ( \/ calls[c].algorithm = <<>> /\ calls[c].pc # "getById"
             \/ calls[c].algorithm # <<>>
                  /\ ( \/ calls[c].algorithm[1].user_id # calls[c].userId
                       \/ ~calls[c].algorithm[1].is_active )
             \/ calls[c].rules = 0 )
           => calls[c].pc = "threw" /\ ~Registered(c)

\* a start of an inactive and a start of a rule-less algorithm have thrown,
\* leaving the engine empty
C12_Witness ==
    /\ Len(calls) = 2
    /\ calls[1].error = "Algorithm is not active"
    /\ calls[2].error = "Algorithm has no rules"
    /\ Running = {}
    /\ timers = {}
    /\ evals = <<>>

\* the step is a timer firing that starts an evaluation of id (it asks for
\* the quotes and goes on to its rules and fills)
TickBegins(id) ==
    /\ Len(evals') = Len(evals) + 1
    /\ evals'[Len(evals')] = Evaluation(id, 0)

\* C13: once stopAlgorithm(id) has returned, no timer firing starts an
\* evaluation of id until startAlgorithm(id) is called again.
C13_NoTickAfterStop ==
    [][\A id \in AlgIds : TickBegins(id) => ~stopped[id]]_vars

\* C14: stopAlgorithm(id) changes nothing when id is not running, a second
\* stopAlgorithm(id) changes nothing more, id is not in running() once
\* stopAlgorithm(id) has returned, and a startAlgorithm(id) that registers
\* after a stop puts id in running().
C14_StopIdempotent ==
    [][\A id \in AlgIds :
         /\ (~isRunning(id) /\ intervals[id] = <<>>)
              => stopAlgorithm(Registry, id) = Registry
         /\ stopAlgorithm(stopAlgorithm(Registry, id), id)
              = stopAlgorithm(Registry, id)
         /\ (stopped'[id] /\ ~stopped[id]) => ~isRunning(id)'
         /\ (\E c \in DOMAIN calls :
               calls[c].id = id /\ calls[c].pc = "getOrCreate"
                 /\ calls'[c].pc = "evaluate")
              => isRunning(id)'
      ]_vars

\* start, stop, start: the second start has registered
C14_Witness ==
    /\ Len(calls) = 2
    /\ calls[1].pc = "returned"
    /\ ~calls[2].wasRunning
    /\ runningAlgorithms[1] = <<2>>
    /\ timers = {2}

-----------------------------------------------------------------------------
(* Properties of one evaluation *)

\* the step ends the tick of task t
TickEnds(t) ==
    /\ task[t].kind = "tick"
    /\ task[t].pc = "evalRule"
    /\ task'[t].pc = "idle"

\* C15: with the rules [#0 IF price > 1 THEN buy:2; #1 IF position.quantity
\* > 1 THEN sell:all], no position and a quote of 2 (the claim's example,
\* scaled to the model's prices), a tick in which no statement fails has
\* bought 2 shares and then sold 2 shares and leaves no position row.
C15_LaterRuleSeesEarlierFill ==
    [][\A t \in Tasks :
         ( /\ TickEnds(t)
           /\ rules = EntryThenExit
           /\ opening.positions["AAPL"] = <<>>
           /\ quote = 2
           /\ runs = 1
           /\ faults = 0 )
         => /\ Len(transactions) = 2
            /\ transactions[1].type = "buy" /\ transactions[1].quantity = 2
            /\ transactions[2].type = "sell" /\ transactions[2].quantity = 2
            /\ positions'["AAPL"] = <<>>
      ]_vars

\* the rules come in ascending order_index order (rules with the same
\* order_index in any order)
Ascending(rs) ==
    \A i, j \in DOMAIN rs : i < j => rs[i].order_index <= rs[j].order_index

TickRunning(t) == task[t].kind = "tick" /\ task[t].pc \in {"evalRule"} \cup FillPcs

EvaluationEnds == Len(evals') < Len(evals)

\* C17: no error inside a tick stops the recurring task: an evaluation that
\* ends, in its catch block or not, leaves the timers and the two maps of the
\* engine as they were; an algorithm that is in getRunningAlgorithms() has
\* its timer, so that each firing starts an evaluation; and the call of
\* startAlgorithm whose first evaluation ended returns, it never throws
\* because of that evaluation.
C17_ErrorsKeepTask ==
    [][/\ EvaluationEnds =>
            /\ timers' = timers
            /\ intervals' = intervals
            /\ runningAlgorithms' = runningAlgorithms
       /\ \A id \in AlgIds :
            isRunning(id) =>
              /\ intervals[id] # <<>>
              /\ intervals[id][1] \in timers
              /\ calls[intervals[id][1]].id = id
       /\ \A c \in DOMAIN calls :
            /\ calls[c].pc = "threw" => calls[c].error # "evaluation"
            /\ (calls[c].pc = "evaluate" /\ calls'[c].pc # "evaluate")
                 => calls'[c].pc = "returned"
      ]_vars

\* the first evaluation and an evaluation started by the timer have both
\* ended in the catch block; startAlgorithm has returned, the algorithm is
\* running and a firing of its timer has started another evaluation
C17_Witness ==
    \E id \in AlgIds :
        /\ logged[id] = {"start", "timer"}
        /\ isRunning(id)
        /\ calls[intervals[id][1]].pc = "returned"
        /\ Len(evals) = 1
        /\ evals[1] = Evaluation(id, 0)

\* C18: for every operator and every condition_value, a rule whose
\* condition_field starts with "position." does not fire when the market
\* context has no position, in the live and in the backtest evaluator.
C18_NoPositionNoFire ==
    (/\ probe.pc = "evaluated"
     /\ probe.rule.condition_field \in PositionFields
     /\ probe.context.position = <<>>)
    => (~probe.fires /\ ~probe.backtestFires)

\* both evaluators have returned false for `position.quantity != 2` on a
\* context with no position
C18_Witness ==
    /\ probe.pc = "evaluated"
    /\ probe.rule.condition_field = "position.quantity"
    /\ probe.rule.condition_operator = "!="
    /\ probe.rule.condition_value = Lit(2)
    /\ probe.context.position = <<>>
    /\ ~probe.fires
    /\ ~probe.backtestFires

\* the names a condition can refer to
KnownFields ==
    {"price", "balance", "position.quantity", "position.averagePrice"}

\* C19: a rule whose condition_field or condition_value cannot be resolved
\* (a field name that is not in the market context, a value that is neither
\* a decimal nor a known field) returns false for every operator, in both
\* evaluators.
C19_UnresolvedIsFalse ==
    (/\ probe.pc = "evaluated"
     /\ \/ probe.rule.condition_field \notin KnownFields
        \/ /\ ParseFloat(probe.rule.condition_value).t = "NaN"
           /\ probe.rule.condition_value.text \notin KnownFields)
    => (~probe.fires /\ ~probe.backtestFires)

\* the table of quantities, in exact arithmetic
TableQuantity(verb, actionValue, ctx, accountBalance) ==
    LET N == actionValue.n
        qty == ctx.position[1].quantity
    IN  IF verb = "buy" THEN
            IF actionValue.text = "max" THEN accountBalance \div ctx.price
            ELSE IF actionValue.percent
              THEN (accountBalance * N) \div (100 * ctx.price)
            ELSE N
        ELSE
            IF actionValue.text = "all" THEN qty
            ELSE IF actionValue.percent THEN (qty * N) \div 100
            ELSE Min(N, qty)

\* C20: for every action string and context, the quantity the live
\* executeAction intends equals the table: buy:N gives floor(N), buy:N%
\* floor((balance*N/100)/price), buy:max floor(balance/price), sell:N
\* min(floor(N), position.qty), sell:N% floor(position.qty*N/100), sell:all
\* position.qty (a sell needs a position).
C20_QuantityTable ==
    (/\ probe.pc = "executed"
     /\ probe.rule.verb = "sell" => probe.context.position # <<>>)
    => probe.quantity =
         JNum(TableQuantity(probe.rule.verb, probe.rule.actionValue,
                            probe.context, probe.balance), 1)

\* C21: a rule of a tick that fires with a computed quantity of 0, or that
\* sells when the account has no position of the symbol, changes nothing: if
\* executeAction calls a fill for it at all, the ledger stays as it was when
\* the fill was called (no order, no transaction, balance and positions
\* unchanged).
C21_NoOpRule ==
    \A t \in Tasks :
        ( /\ task[t].kind = "tick"
          /\ InFill(t)
          /\ pre # <<>>
          /\ \/ task[t].quantity <= 0
             \/ /\ task[t].side = "sell"
                /\ pre[1].positions[task[t].symbol] = <<>> )
        => Snapshot = pre[1]

\* the step in which a reset completes
ResetCompletes ==
    /\ req.kind = "reset"
    /\ req.pc = "resetUpdate"
    /\ req'.result = "200"

NoPositions(pos) == \A sym \in Symbols : pos[sym] = <<>>

\* C22: when reset(account) completes, after any sequence of fills and views
\* with nothing else in flight, the account has no positions and no
\* transactions, balance = total_value = initial_balance, and
\* initial_balance is what it was when the account was opened.
C22_ResetRestores ==
    [][ResetCompletes =>
         /\ NoPositions(positions')
         /\ transactions' = <<>>
         /\ balance' = acct'.initial_balance
         /\ acct'.total_value = acct'.initial_balance
         /\ acct'.initial_balance = acct.initial_balance
         /\ acct'.initial_balance
              = OpeningValue(opening.balance, opening.positions)
      ]_vars

\* a reset has completed after a fill that had changed the balance and left a
\* transaction
C22_Witness ==
    /\ req.kind = "reset"
    /\ req.result = "200"
    /\ \E o \in DOMAIN orders : orders[o].status = "filled"
    /\ transactions = <<>>
    /\ NoPositions(positions)
    /\ balance = acct.initial_balance

\* C23: reset is atomic with respect to fills: when a reset and a manual
\* order that ran interleaved have both ended (no statement having failed),
\* the ledger is that of the fill followed by the reset (nothing held, no
\* transaction, the initial balance) or that of the reset followed by the
\* fill (a buy paid from the initial balance, its transaction showing the
\* stored balance, the shares bought held).
C23_ResetAtomic ==
    ( /\ req.kind = "reset" /\ req.result = "200"
      /\ task[Clerk].pc = "idle" /\ task[Clerk].result # "none"
      /\ faults = 0 )
    => \/ /\ NoPositions(positions)
          /\ transactions = <<>>
          /\ balance = acct.initial_balance
       \/ /\ Len(transactions) = 1
          /\ transactions[1].type = "buy"
          /\ balance = acct.initial_balance + transactions[1].amount
          /\ transactions[1].balance_after = balance
          /\ \A sym \in Symbols :
               Held(positions[sym]) = NetShares(transactions, sym)

\* the step answers an account view
ViewCompletes ==
    /\ req.kind = "view"
    /\ req.pc = "getStats"
    /\ req'.result = "200"

\* the sum over the positions of quantity * current_price
RECURSIVE ValueAtCurrentPrice(_, _)
ValueAtCurrentPrice(pos, syms) ==
    IF syms = {} THEN 0
    ELSE LET sym == CHOOSE x \in syms : TRUE
         IN  (IF pos[sym] = <<>> \/ pos[sym][1].market = <<>> THEN 0
              ELSE pos[sym][1].quantity * pos[sym][1].market[1].current_price)
             + ValueAtCurrentPrice(pos, syms \ {sym})

\* C24: when an account view has been answered, the stored total_value is the
\* stored balance plus the sum over the account's positions of
\* quantity * current_price, whatever fills came before (no statement having
\* failed), the sale of the account's last position included.
C24_TotalValueAfterView ==
    [][(ViewCompletes /\ faults = 0) =>
         acct'.total_value
           = balance' + ValueAtCurrentPrice(positions', Symbols)]_vars

\* the symbols whose fetch the upstream answered, by the quotes returned
Answered(quotes) == {sym \in DOMAIN quotes : ~quotes[sym].synthetic}

\* C25: the map getMultipleQuotes returns has a key for every symbol whose
\* fetch succeeded and none for a symbol whose fetch failed, and a tick
\* evaluates no rule for a symbol whose fetch failed.
C25_FailedFetchOmitsKey ==
    /\ req.pc = "updateMarketValue"
         => DOMAIN req.quotes[1] = Answered(req.quotes[1])
    /\ \A t \in Tasks :
         (task[t].kind = "tick" /\ task[t].pc # "idle") => ~task[t].synthetic

\* C26: in production mode no tick evaluates rules or fills an order at a
\* price the market data service made up after a failed fetch.
C26_NoSyntheticInProduction ==
    \A t \in Tasks :
        (NODE_ENV = "production" /\ task[t].kind = "tick" /\ InFill(t))
        => ~task[t].synthetic

-----------------------------------------------------------------------------
(* Properties of the backtest *)

\* the rule the loop is at fires on the bar's context
RuleFires ==
    /\ bt.pc = "bar"
    /\ bt.ruleIdx <= Len(bt.rules)
    /\ backtestEvaluateRule(bt.rules[bt.ruleIdx], bt.context[1])

\* buys and sells take turns in the trade list, a buy first
Alternating(trades) ==
    \A k \in 1..Len(trades) :
        trades[k].side = (IF k % 2 = 1 THEN "buy" ELSE "sell")

\* C27: in a backtest at most one position is open at any time: the trades
\* are a buy, a sell, a buy and so on, and a buy rule that fires while a
\* position is open leaves balance, position and the trade list unchanged.
C27_OnePosition ==
    [][/\ Alternating(bt'.trades)
       /\ ( /\ RuleFires
            /\ bt.rules[bt.ruleIdx].verb = "buy"
            /\ bt.position # <<>> )
          => /\ bt'.balance = bt.balance
             /\ bt'.position = bt.position
             /\ bt'.trades = bt.trades]_vars

\* the first rule of the second bar, a buy, fired with the position of the
\* first bar open, and the loop has passed it
C27_Witness ==
    /\ bt.pc = "bar"
    /\ bt.i = 2
    /\ bt.ruleIdx = 2
    /\ bt.rules[1].verb = "buy"
    /\ backtestEvaluateRule(bt.rules[1], bt.context[1])
    /\ bt.context[1].position # <<>>
    /\ bt.position = bt.context[1].position
    /\ Len(bt.trades) = 1

\* the step leaves the loop over the bars
SimulationEnds == bt.pc = "bar" /\ bt'.pc = "done"

\* C28: a backtest ends with no open position: a position open after the
\* last bar's rules is sold whole at the last close by one more trade, of
\* reason 'End of backtest period', whose proceeds are added to the balance;
\* with no position open no trade is added; no other trade has that reason.
C28_ClosedAtEnd ==
    [][SimulationEnds =>
         /\ bt'.position = <<>>
         /\ \A k \in 1..Len(bt.trades) : bt.trades[k].reason # EndReason
         /\ IF bt.position # <<>>
              THEN /\ bt'.trades =
                        Append(bt.trades,
                               [side |-> "sell",
                                quantity |-> bt.position[1].quantity,
                                price |-> bt.bars[Len(bt.bars)],
                                pl |-> bt.position[1].quantity
                                         * (bt.bars[Len(bt.bars)]
                                            - bt.position[1].average_price.num),
                                reason |-> "End of backtest period"])
                   /\ bt'.balance =
                        bt.balance
                          + bt.position[1].quantity * bt.bars[Len(bt.bars)]
              ELSE /\ bt'.trades = bt.trades
                   /\ bt'.balance = bt.balance]_vars

\* a simulation ended by selling the position that was open
C28_Witness ==
    /\ bt.pc = "done"
    /\ bt.position = <<>>
    /\ bt.trades # <<>>
    /\ bt.trades[Len(bt.trades)].reason = EndReason
    /\ bt.trades[Len(bt.trades)].price = bt.bars[Len(bt.bars)]

-----------------------------------------------------------------------------
(* Properties of the rule routes *)

\* the user who owns the algorithm the stored rule belongs to
RuleOwner(id) == trading_algorithms[algorithm_rules[id][1].algorithm_id].user_id

\* C30: a rule update or delete request of a user changes a rule only if the
\* rule belongs to an algorithm that user owns; a request on a rule of
\* another user's algorithm is answered 404.
C30_OwnRulesOnly ==
    [][/\ \A id \in RuleIds :
            algorithm_rules'[id] # algorithm_rules[id]
              => RuleOwner(id) = reply'.user
       /\ ( /\ reply' # reply
            /\ reply'.ruleId \in RuleIds
            /\ algorithm_rules[reply'.ruleId] # <<>>
            /\ RuleOwner(reply'.ruleId) # reply'.user )
          => reply'.status = 404]_vars

-----------------------------------------------------------------------------
(* Properties of the live tick and of the two engines *)

\* C31: when a tick begins to evaluate its rules, the balance it evaluates
\* `balance` conditions with and sizes buy:max and buy:N% from is the
\* balance the ledger stores at that moment (no statement having failed).
C31_TickUsesLedgerBalance ==
    \A t \in Tasks :
        ( /\ task[t].kind = "tick" /\ task[t].pc = "evalRule"
          /\ task[t].ruleIdx = 1 /\ faults = 0 )
        => ctxBalance = balance

\* C32: the live and the backtest evaluateRule return the same boolean for
\* every rule and every context of the same price, position and balance, a
\* condition_value that names a field such as `balance` included.
C32_SameEvaluator ==
    probe.pc = "evaluated" => probe.fires = probe.backtestFires

-----------------------------------------------------------------------------
(* Properties of the market data cache *)

\* the step is a read through the cache
CacheRead == served'.n = served.n + 1

\* the age of the entry under the key at the time of the read
Expired(entry, now) == now - entry.timestamp > entry.duration

\* C33: a read through the cache returns the stored value while the entry is
\* no older than its TTL (60 s for quotes, 1 h for historical bars) and
\* leaves it; once the entry is older, the read misses and the entry is
\* removed (or replaced by what was fetched at that moment); entries under
\* other keys are unaffected; mock data is never stored.
C33_CacheTTL ==
    [][CacheRead =>
         LET key == served'.key
             entry == cache[key]
         IN  /\ (entry # <<>> /\ ~Expired(entry[1], clock.now))
                  => /\ served'.hit
                     /\ served'.data = <<entry[1].data>>
                     /\ cache'[key] = entry
             /\ (entry # <<>> /\ Expired(entry[1], clock.now))
                  => /\ ~served'.hit
                     /\ \/ cache'[key] = <<>>
                        \/ cache'[key][1].timestamp = clock.now
             /\ \A other \in CacheKeys \ {key} : cache'[other] = cache[other]
             /\ \A k \in CacheKeys :
                  cache'[k] # <<>> =>
                    /\ ~cache'[k][1].data.synthetic
                    /\ cache'[k][1].duration =
                         (IF k = "quote_AAPL" THEN 60000 ELSE 3600000)]_vars

\* a quote was read one millisecond after its entry expired and missed,
\* the upstream failing, while the historical bars stayed cached
C33_Witness ==
    /\ served.key = "quote_AAPL"
    /\ served.found # <<>>
    /\ served.at - served.found[1].timestamp = 60001
    /\ ~served.hit
    /\ served.data[1].synthetic
    /\ cache["quote_AAPL"] = <<>>
    /\ cache["hist_AAPL_1y_1d"] # <<>>

-----------------------------------------------------------------------------
(* Properties of the backtest's results *)

\* the step begins a bar of a simulation
BarBegins == bt'.pc = "bar" /\ (bt.pc # "bar" \/ bt'.i # bt.i)

\* C34: the equity curve has one point per simulated bar, in bar order; the
\* point of a bar is appended when the bar begins, before its rules are
\* evaluated, from the balance and position of that moment: position_value
\* is quantity * close (0 with no position) and total_value is
\* balance + position_value.
C34_EquityCurve ==
    [][bt'.pc \in {"bar", "done"} =>
         LET curve == bt'.equityCurve
             held == IF bt'.position = <<>> THEN 0
                     ELSE bt'.position[1].quantity
         IN  /\ Len(curve) = bt'.i
             /\ \A k \in 1..Len(curve) :
                  curve[k].total_value
                    = curve[k].balance + curve[k].position_value
             /\ BarBegins =>
                  /\ bt'.ruleIdx = 1
                  /\ curve[bt'.i] =
                       [balance |-> bt'.balance,
                        position_value |-> held * bt'.bars[bt'.i],
                        total_value |-> bt'.balance + held * bt'.bars[bt'.i]]
                  /\ bt.pc = "bar" =>
                       SubSeq(curve, 1, bt.i) = bt.equityCurve
             /\ ~BarBegins => curve = bt.equityCurve]_vars

\* the second bar began with a position open
C34_Witness ==
    /\ bt.pc = "bar"
    /\ bt.i = 2
    /\ Len(bt.equityCurve) = 2
    /\ bt.equityCurve[2].position_value > 0
    /\ bt.equityCurve[2].balance < bt.equityCurve[1].balance

\* C35: at bar index i the context has rsi exactly when 14 bars are
\* available (i + 1 >= 14), sma_20 exactly when 20 are and sma_50 exactly
\* when 50 are.
C35_IndicatorsPresent ==
    probe.pc = "indicated" =>
        LET available == probe.currentIndex + 1
        IN  /\ "rsi" \in probe.indicators <=> available >= 14
            /\ "sma_20" \in probe.indicators <=> available >= 20
            /\ "sma_50" \in probe.indicators <=> available >= 50

-----------------------------------------------------------------------------
(* Properties of the engine's timers and evaluations *)

\* the timers of setInterval not yet cleared that evaluate algorithm id
TimersOf(id) == {h \in timers : calls[h].id = id}

\* C36: in every state of the engine each algorithm id has at most one
\* timer, it has one exactly when it is in running(), and that timer is the
\* one intervals holds for it, so that stop can clear it.
C36_OneTimerPerAlgorithm ==
    \A id \in AlgIds :
        /\ Cardinality(TimersOf(id)) <= 1
        /\ Cardinality(TimersOf(id)) = 1 <=> isRunning(id)
        /\ \A h \in TimersOf(id) : intervals[id] = <<h>>

\* C37: whenever executeAction of a tick has called a sell fill, the quantity
\* it submitted is at most the quantity the account held of the symbol when
\* the fill was called, whatever the sell qualifier and whatever rules fired
\* before it in the tick.
C37_SellWithinHolding ==
    \A t \in Tasks :
        ( /\ task[t].kind = "tick"
          /\ InFill(t)
          /\ task[t].side = "sell"
          /\ pre # <<>> )
        => task[t].quantity <= Held(pre[1].positions[task[t].symbol])

-----------------------------------------------------------------------------
(* Properties of the backtest's books *)

\* the shares of the trades of a side, and the realized pl of the sells
RECURSIVE SharesTraded(_, _)
SharesTraded(trades, side) ==
    IF trades = <<>> THEN 0
    ELSE (IF Head(trades).side = side THEN Head(trades).quantity ELSE 0)
         + SharesTraded(Tail(trades), side)

RECURSIVE RealizedPl(_)
RealizedPl(trades) ==
    IF trades = <<>> THEN 0
    ELSE (IF Head(trades).side = "sell" THEN Head(trades).pl ELSE 0)
         + RealizedPl(Tail(trades))

\* C38: a backtest that has ended conserves value: final_capital -
\* initial_capital equals the sum of the realized pl of its sell trades, and
\* it sold as many shares as it bought.
C38_BacktestConservesValue ==
    (bt.pc = "done" /\ bt.result # <<>>) =>
        LET r == bt.result[1]
        IN  /\ r.metrics.final_capital - r.metrics.initial_capital
                  = RealizedPl(r.trades)
            /\ SharesTraded(r.trades, "sell") = SharesTraded(r.trades, "buy")

-----------------------------------------------------------------------------
(* Properties of the evaluations in flight and of the stored algorithms *)

\* the evaluations of algorithm id that have begun and not ended
InFlight(id) == {e \in DOMAIN evals : evals[e].id = id}

\* C39: at most one evaluation of an algorithm is in flight at any time: no
\* timer starts one while the first evaluation of start or an earlier tick
\* of the algorithm still waits for its quotes or its ledger writes.
C39_OneEvaluationInFlight ==
    \A id \in AlgIds : Cardinality(InFlight(id)) <= 1

\* C40: every algorithm in running() is stored, is active and has at least
\* one rule, and the rules its context holds are the rules stored for it:
\* toggling it inactive, deleting it or deleting its rules ends its run.
C40_RunningIsCurrent ==
    \A id \in Running :
        /\ algorithms[id] # <<>>
        /\ algorithms[id][1].is_active
        /\ RulesOf(id) # {}
        /\ calls[runningAlgorithms[id][1]].rules = Cardinality(RulesOf(id))

====
